---- MODULE Spec2Model ----
(***************************************************************************)
(* A model of fio's verify test harness, t/verify.py: the result check of  *)
(* the fault-injection cases (VerifyFailureTest.check_result), the fixture *)
(* path derivation of verify_test, and main's two matrices; and of the     *)
(* copy test harness, t/copy_test.py: main's loop and FioCopyTest.run_fio; *)
(* of VerifyFailureTest.setup's argument vector and the fio invocation it  *)
(* starts; of the smalloc log audit, t/poolcheck.py; of the copy test      *)
(* methods check_iolog and get_json; and of the client/server harness,     *)
(* t/client-server.py: ClientServerTestGlobalMultiple.check_result and     *)
(* main's starting and stopping of the servers.                            *)
(*                                                                         *)
(* Strings are Python strings; a fio JSON report is the sequence of its    *)
(* 'jobs' entries, each a record [jobname, error].                         *)
(***************************************************************************)
EXTENDS Integers, Sequences, FiniteSets, TLC

VARIABLES
    platform,     \* OS identifier of the host the harness runs on
    cpucount,     \* number of CPUs of the host
    active,       \* the subprocesses started by the harness that have not terminated
    phases,       \* one fio invocation: its argument vector, its jobs and each job's state
    pool,         \* poolcheck.py: the log, the position in it and the script's variables
    bssplit,      \* copy_test.py: a TestBssplit object inside check_iolog
    getjson,      \* copy_test.py: a FioCopyTest object inside get_json
    gmulti,       \* client-server.py: a ClientServerTestGlobalMultiple object inside
                  \* check_result
    csmain,       \* client-server.py: main, its servers and PIDFILE_LIST
    fio_verify,   \* self.fio_opts['verify'] of the case being judged
    json_data,    \* self.json_data['jobs'] of the case being judged
    base_passed,  \* self.passed as left by super().check_result()
    passed,       \* self.passed after VerifyFailureTest.check_result
    jpc,          \* "super_done" before check_result's own rules, "checked" after
    args,         \* the parsed command line
    pc,           \* main: "start", "ddir", "mangle", "report", "exited", "crashed";
                  \* copy_test's main: "cstart", "cloop", "cwait"
    combo,        \* 1-based index into itertools.product(...) of the current matrix
    tnum,         \* run_fio_tests: index of the next test of the list; 0 outside the call
    test_env,     \* test_env['artifact_root']
    TEST_LIST,             \* the module-level list of direction-sensitive tests
    TEST_LIST_DDIR_FIXED,  \* the module-level list of fault-injection tests
    total,        \* main's total = {passed, failed, skipped}
    tally,        \* run_fio_tests' own passed, failed, skipped
    dirs,         \* the directories that exist, as the harness names them
    ran,          \* history: the combinations started so far, in order
    fixtures,     \* history: test directory of each write-class case run -> its verdict
    last,         \* the case processed last and how it was counted
    interrupted,  \* history: a KeyboardInterrupt was delivered
    exitcode      \* the exit status of the process as its caller sees it, -1 before

jvars == <<fio_verify, json_data, base_passed, passed, jpc>>

mvars == <<args, pc, combo, tnum, test_env, TEST_LIST, TEST_LIST_DDIR_FIXED, total, tally,
           dirs, ran, fixtures, last, interrupted, exitcode>>

ovars == <<bssplit, getjson, gmulti, csmain>>

vars == <<platform, cpucount, active, phases, pool, ovars, jvars, mvars>>

\* no fio invocation is being followed
NoPhases == [args |-> <<>>, jobs |-> <<>>, status |-> <<>>]

\* poolcheck.py is not running
NoPool == [flines |-> <<>>, pos |-> 0, smalloc |-> <<>>, count |-> 0, trigger |-> {},
           out |-> <<>>, leaked |-> <<>>, pc |-> "idle"]

\* no method of a test object is being followed, client-server.py is not
\* running
NoObject == [pc |-> "idle"]

ObjectsIdle ==
    /\ bssplit = NoObject
    /\ getjson = NoObject
    /\ gmulti = NoObject
    /\ csmain = NoObject

ToolsIdle == phases = NoPhases /\ pool = NoPool /\ ObjectsIdle

(***************************************************************************)
(* Python string helpers.                                                  *)
(***************************************************************************)

\* pat in s
Contains(pat, s) ==
    \E k \in 1..(Len(s) - Len(pat) + 1) : SubSeq(s, k, k + Len(pat) - 1) = pat

\* s.startswith(pat)
StartsWith(s, pat) == Len(s) >= Len(pat) /\ SubSeq(s, 1, Len(pat)) = pat

\* s.replace(old, new): every non-overlapping occurrence, left to right
RECURSIVE Replace(_, _, _)
Replace(s, old, new) ==
    IF Len(s) < Len(old) THEN s
    ELSE IF SubSeq(s, 1, Len(old)) = old
         THEN new \o Replace(SubSeq(s, Len(old) + 1, Len(s)), old, new)
         ELSE SubSeq(s, 1, 1) \o Replace(SubSeq(s, 2, Len(s)), old, new)

\* f"{n:04d}"
RECURSIVE ZeroPad(_, _)
ZeroPad(s, width) == IF Len(s) >= width THEN s ELSE ZeroPad("0" \o s, width)

Pad4(n) == ZeroPad(ToString(n), 4)

\* the characters Python 2's str.strip() removes: space, newline, tab,
\* carriage return, form feed and vertical tab
Whitespace == {" ", "\n", "\t", "\r", "\f", ""}

\* the white space of JSON
JsonWhitespace == {" ", "\n", "\t", "\r"}

\* s.strip(chars): characters of the set removed from both ends
StripChars(s, chars) ==
    LET keep == {i \in 1..Len(s) : SubSeq(s, i, i) \notin chars}
    IN  IF keep = {} THEN ""
        ELSE SubSeq(s, CHOOSE i \in keep : \A j \in keep : i <= j,
                       CHOOSE i \in keep : \A j \in keep : i >= j)

\* s.split(' '): the pieces between single spaces, empty pieces included
Split(s) ==
    LET sp      == {i \in 1..Len(s) : SubSeq(s, i, i) = " "}
        n       == Cardinality(sp) + 1
        nth(k)  == CHOOSE i \in sp : Cardinality({j \in sp : j < i}) = k - 1
        from(k) == IF k = 1 THEN 1 ELSE nth(k - 1) + 1
        to(k)   == IF k = n THEN Len(s) ELSE nth(k) - 1
    IN  [k \in 1..n |-> SubSeq(s, from(k), to(k))]

\* os.sep
Sep(os) == IF os = "windows" THEN "\\" ELSE "/"

\* the characters that separate path components: os.sep and os.altsep
Seps(os) == IF os = "windows" THEN {"\\", "/"} ELSE {"/"}

\* the pieces of s between the characters of seps, empty pieces included
SplitSeps(s, seps) ==
    LET sp      == {i \in 1..Len(s) : SubSeq(s, i, i) \in seps}
        n       == Cardinality(sp) + 1
        nth(k)  == CHOOSE i \in sp : Cardinality({j \in sp : j < i}) = k - 1
        from(k) == IF k = 1 THEN 1 ELSE nth(k - 1) + 1
        to(k)   == IF k = n THEN Len(s) ELSE nth(k) - 1
    IN  [k \in 1..n |-> SubSeq(s, from(k), to(k))]

\* sep.join(comps)
RECURSIVE JoinComps(_, _)
JoinComps(comps, sep) ==
    IF Len(comps) = 0 THEN ""
    ELSE IF Len(comps) = 1 THEN comps[1]
    ELSE comps[1] \o sep \o JoinComps(Tail(comps), sep)

\* s.find(c, i - 1) + 1 for a character of chars: the position of the first
\* one at or after position i, 0 when there is none
FindIn(s, chars, i) ==
    LET at == {k \in i..Len(s) : SubSeq(s, k, k) \in chars}
    IN  IF at = {} THEN 0 ELSE CHOOSE k \in at : \A j \in at : k <= j

\* s.lstrip(chars)
Lstrip(s, chars) ==
    LET keep == {i \in 1..Len(s) : SubSeq(s, i, i) \notin chars}
    IN  IF keep = {} THEN ""
        ELSE SubSeq(s, CHOOSE i \in keep : \A j \in keep : i <= j, Len(s))

\* the characters below U+0100 that str.lower() changes, and what it makes
\* of them: A to Z and the capital letters of Latin-1
UpperLetters == "ABCDEFGHIJKLMNOPQRSTUVWXYZÀÁÂÃÄÅÆÇÈÉÊËÌÍÎÏÐÑÒÓÔÕÖØÙÚÛÜÝÞ"

LowerLetters == "abcdefghijklmnopqrstuvwxyzàáâãäåæçèéêëìíîïðñòóôõöøùúûüýþ"

\* pathlib's drive_letters: the letters a drive name can be
drive_letters == "abcdefghijklmnopqrstuvwxyzABCDEFGHIJKLMNOPQRSTUVWXYZ"

\* c.lower() for one character
LowerChar(c, at) ==
    IF at = {} THEN c ELSE SubSeq(LowerLetters, CHOOSE k \in at : TRUE, CHOOSE k \in at : TRUE)

\* s.lower()
RECURSIVE Lower(_)
Lower(s) ==
    IF s = "" THEN ""
    ELSE LowerChar(SubSeq(s, 1, 1),
                   {k \in 1..Len(UpperLetters) : SubSeq(UpperLetters, k, k) = SubSeq(s, 1, 1)})
         \o Lower(SubSeq(s, 2, Len(s)))

\* splitdrive for a path that starts with two separators: the drive ends
\* before the separator at index2, the second one from position start on
splitdrive_unc(p, index2) == IF index2 = 0 THEN p ELSE SubSeq(p, 1, index2 - 1)

splitdrive_index(p, index) ==
    IF index = 0 THEN p ELSE splitdrive_unc(p, FindIn(p, {"\\", "/"}, index + 1))

\* os.path.splitdrive(p)[0]: on Windows the UNC share or device a path
\* starts with (up to the second separator after the leading two, or after
\* \\?\UNC\ in either case of the letters; the whole path when it has no
\* such separator) or the character and colon it starts with; a separator
\* is either of \ and /. POSIX paths have no drive
Drive(os, p) ==
    LET seps   == {"\\", "/"}
        sep(k) == Len(p) >= k /\ SubSeq(p, k, k) \in seps
        unc    == /\ Len(p) >= 8 /\ sep(4) /\ sep(8)
                  /\ SubSeq(p, 3, 3) = "?" /\ Lower(SubSeq(p, 5, 7)) = "unc"
    IN  IF os # "windows" \/ Len(p) < 2 THEN ""
        ELSE IF sep(1) /\ sep(2)
             THEN splitdrive_index(p, FindIn(p, seps, IF unc THEN 9 ELSE 3))
        ELSE IF SubSeq(p, 2, 2) = ":" THEN SubSeq(p, 1, 2)
        ELSE ""

\* ntpath.join for a with drive a_drive and b with drive b_drive
join_drives(a, b, a_drive, b_drive) ==
    LET lastch(s) == SubSeq(s, Len(s), Len(s))
        seps     == {"\\", "/"}
        a_path   == SubSeq(a, Len(a_drive) + 1, Len(a))
        b_path   == SubSeq(b, Len(b_drive) + 1, Len(b))
        rooted   == b_path # "" /\ SubSeq(b_path, 1, 1) \in seps
        other    == b_drive # "" /\ Lower(b_drive) # Lower(a_drive)
        drive    == IF rooted /\ b_drive = "" THEN a_drive
                    ELSE IF b_drive # "" THEN b_drive
                    ELSE a_drive
        path     == IF rooted \/ other THEN b_path
                    ELSE IF a_path # "" /\ lastch(a_path) \notin seps
                    THEN a_path \o "\\" \o b_path
                    ELSE a_path \o b_path
    IN  IF /\ path # "" /\ SubSeq(path, 1, 1) \notin seps
           /\ drive # "" /\ lastch(drive) # ":"
        THEN drive \o "\\" \o path
        ELSE drive \o path

\* os.path.join(a, b): b replaces a's path when b is rooted and a's drive
\* too when b has another one (drives compare without case); otherwise b is
\* put after a, with a separator unless a's path is empty or ends with one
Join(os, a, b) ==
    IF os = "windows" THEN join_drives(a, b, Drive(os, a), Drive(os, b))
    ELSE IF StartsWith(b, "/") THEN b
    ELSE IF a = "" \/ SubSeq(a, Len(a), Len(a)) = "/" THEN a \o b
    ELSE a \o "/" \o b

\* the directory the harness is started in
Cwd(os) == IF os = "windows" THEN "C:\\work" ELSE "/work"

\* splitroot of a Windows path that is no share: a letter and colon is the
\* drive, a separator after it the root
splitroot_drive(prefix, part) ==
    LET ch(i)  == IF i <= Len(part) THEN SubSeq(part, i, i) ELSE ""
        letter == ch(2) = ":" /\ Contains(ch(1), drive_letters)
        rooted == (IF letter THEN ch(3) ELSE ch(1)) = "\\"
        rest   == IF letter THEN SubSeq(part, 3, Len(part)) ELSE part
    IN  [drv  |-> prefix \o (IF letter THEN SubSeq(part, 1, 2) ELSE ""),
         root |-> IF rooted THEN "\\" ELSE "",
         rel  |-> IF rooted THEN Lstrip(rest, {"\\"}) ELSE rest]

\* splitroot of \\machine\mountpoint...: the separators after the leading
\* two are at index and index2 (0 when there is none); with two in a row
\* the path is no share
splitroot_share(prefix, part, index, index2) ==
    LET end == IF index2 = 0 THEN Len(part) ELSE index2 - 1
    IN  IF index2 = index + 1 THEN splitroot_drive(prefix, part)
        ELSE [drv  |-> IF prefix # "" THEN prefix \o SubSeq(part, 2, end)
                       ELSE SubSeq(part, 1, end),
              root |-> "\\",
              rel  |-> IF end + 2 <= Len(part) THEN SubSeq(part, end + 2, Len(part))
                       ELSE ""]

splitroot_unc(prefix, part, index) ==
    IF index = 0 THEN splitroot_drive(prefix, part)
    ELSE splitroot_share(prefix, part, index, FindIn(part, {"\\"}, index + 1))

\* splitroot of a Windows path after its extended prefix
splitroot_nt(prefix, part) ==
    IF StartsWith(part, "\\\\") /\ ~StartsWith(part, "\\\\\\")
    THEN splitroot_unc(prefix, part, FindIn(part, {"\\"}, 3))
    ELSE splitroot_drive(prefix, part)

\* pathlib's splitroot(part) of Python 3.11: the drive, the root and the
\* rest of one path argument whose separators are already os.sep. On
\* Windows the drive is a UNC share (two leading separators, no doubled
\* separator after them), a letter and colon, or either after the extended
\* prefix \\?\ (\\?\UNC\ for a share); POSIX keeps exactly two leading
\* slashes apart from one
splitroot(os, part) ==
    LET after    == SubSeq(part, 5, Len(part))
        stripped == Lstrip(part, {"/"})
    IN  IF os # "windows"
        THEN IF StartsWith(part, "/")
             THEN [drv |-> "", rel |-> stripped,
                   root |-> IF Len(part) - Len(stripped) = 2 THEN "//" ELSE "/"]
             ELSE [drv |-> "", root |-> "", rel |-> part]
        ELSE IF ~StartsWith(part, "\\\\?\\") THEN splitroot_nt("", part)
        ELSE IF StartsWith(after, "UNC\\")
             THEN splitroot_nt("\\\\?\\UNC", "\\" \o SubSeq(after, 4, Len(after)))
        ELSE splitroot_nt("\\\\?\\", after)

\* a path argument with os.altsep replaced by os.sep
NormSep(os, part) == IF os = "windows" THEN Replace(part, "/", "\\") ELSE part

\* the drive of the nearest of parts[1..k] that has one, "" when none has
RECURSIVE EarlierDrive(_, _, _)
EarlierDrive(os, parts, k) ==
    IF k = 0 THEN ""
    ELSE IF parts[k] # "" /\ splitroot(os, NormSep(os, parts[k])).drv # ""
         THEN splitroot(os, NormSep(os, parts[k])).drv
    ELSE EarlierDrive(os, parts, k - 1)

RECURSIVE parse_parts_from(_, _, _, _)

\* parse_parts at the argument parts[k], split into sr, with the components
\* found after it
parse_part(os, parts, k, comps, sr) ==
    LET named(c) == c \notin {"", "."}
        found    == SelectSeq(SplitSeps(sr.rel, {Sep(os)}), named) \o comps
    IN  IF sr.drv # "" THEN [drv |-> sr.drv, root |-> sr.root, comps |-> found]
        ELSE IF sr.root # ""
        THEN [drv |-> EarlierDrive(os, parts, k - 1), root |-> sr.root, comps |-> found]
        ELSE parse_parts_from(os, parts, k - 1, found)

\* pathlib's parse_parts: the arguments are read from the last one back to
\* the first that has a drive or a root; empty components and '.' are
\* dropped, '..' is kept; a root without drive takes the drive of the
\* nearest earlier argument that has one. comps are the components after
\* the anchor drv + root
parse_parts_from(os, parts, k, comps) ==
    IF k = 0 THEN [drv |-> "", root |-> "", comps |-> comps]
    ELSE IF parts[k] = "" THEN parse_parts_from(os, parts, k - 1, comps)
    ELSE parse_part(os, parts, k, comps, splitroot(os, NormSep(os, parts[k])))

parse_parts(os, parts) == parse_parts_from(os, parts, Len(parts), <<>>)

\* str() of a pathlib path
PathStr(os, parsed) ==
    LET text == parsed.drv \o parsed.root \o JoinComps(parsed.comps, Sep(os))
    IN  IF text = "" THEN "." ELSE text

\* Path.absolute() for the parsed path self
absolute(os, self) ==
    LET anchor == self.drv \o self.root
        _parts == IF anchor # "" THEN <<anchor>> \o self.comps ELSE self.comps
    IN  IF self.root # "" /\ (os # "windows" \/ self.drv # "") THEN PathStr(os, self)
        ELSE PathStr(os, parse_parts(os, <<Cwd(os)>> \o _parts))

\* str(Path(p).absolute()) of Python 3.11: a path that has a root and, on
\* Windows, a drive is kept; any other is parsed again from the working
\* directory followed by its own parts (its drive and root as one part,
\* then its components)
Absolute(os, p) == absolute(os, parse_parts(os, <<p>>))

\* os.path.normpath's treatment of '..': a component before it is dropped
\* with it, at the root it is dropped alone, elsewhere it is kept
RECURSIVE Collapse(_, _, _)
Collapse(done, comps, rooted) ==
    IF Len(comps) = 0 THEN done
    ELSE IF comps[1] # ".." THEN Collapse(Append(done, comps[1]), Tail(comps), rooted)
    ELSE IF Len(done) > 0 /\ done[Len(done)] # ".."
         THEN Collapse(SubSeq(done, 1, Len(done) - 1), Tail(comps), rooted)
    ELSE IF rooted THEN Collapse(done, Tail(comps), rooted)
    ELSE Collapse(Append(done, ".."), Tail(comps), rooted)

\* normpath for the prefix (the drive and the separators after it made
\* one) and the components after it
normpath_comps(os, prefix, comps) ==
    IF prefix = "" /\ comps = <<>> THEN "." ELSE prefix \o JoinComps(comps, Sep(os))

normpath_prefix(os, prefix, rest) ==
    LET named(c) == c \notin {"", "."}
        rooted   == prefix # "" /\ SubSeq(prefix, Len(prefix), Len(prefix)) = Sep(os)
    IN  normpath_comps(os, prefix,
                       Collapse(<<>>, SelectSeq(SplitSeps(rest, {Sep(os)}), named), rooted))

normpath_rest(os, drive, rest) ==
    LET slashes == IF ~StartsWith(rest, Sep(os)) THEN ""
                   ELSE IF os # "windows" /\ StartsWith(rest, "//") /\ ~StartsWith(rest, "///")
                   THEN "//"
                   ELSE Sep(os)
    IN  normpath_prefix(os, drive \o slashes, rest)

normpath_drive(os, path, drive) ==
    normpath_rest(os, drive, SubSeq(path, Len(drive) + 1, Len(path)))

normpath_sep(os, path) == normpath_drive(os, path, Drive(os, path))

\* os.path.normpath(path): separators made os.sep, the drive kept, the
\* separators after it made one (POSIX keeps exactly two leading slashes),
\* empty components and '.' dropped, '..' collapsed
normpath(os, path) == normpath_sep(os, NormSep(os, path))

\* os.path.isabs(s): on Windows a path that starts with a separator or
\* whose second and third characters are a colon and a separator
isabs(os, s) ==
    IF os # "windows" THEN StartsWith(s, "/")
    ELSE \/ Len(s) >= 1 /\ SubSeq(s, 1, 1) \in {"\\", "/"}
         \/ Len(s) >= 3 /\ SubSeq(s, 2, 2) = ":" /\ SubSeq(s, 3, 3) \in {"\\", "/"}

\* abspath for p with drive drive
abspath_drive(os, p, drive) ==
    IF os = "windows" /\ isabs(os, p) /\ drive = ""
    THEN normpath(os, Drive(os, Cwd(os)) \o p)
    ELSE IF isabs(os, p) THEN normpath(os, p)
    ELSE IF os = "windows" /\ drive # "" /\ Lower(drive) # Lower(Drive(os, Cwd(os)))
    THEN normpath(os, drive \o "\\" \o SubSeq(p, Len(drive) + 1, Len(p)))
    ELSE normpath(os, Join(os, Cwd(os), p))

\* os.path.abspath(p): normpath of p when it is absolute, of join(cwd, p)
\* when it is not. Windows resolves a rooted path without drive on the
\* working directory's drive, and a path without root on another drive
\* (drives compare without case) from that drive's root
Abspath(os, p) == abspath_drive(os, p, Drive(os, p))

(***************************************************************************)
(* The platform's errno.EILSEQ ("Illegal byte sequence").                  *)
(***************************************************************************)

Platforms == {"linux", "darwin", "windows"}

EILSEQ(os) ==
    CASE os = "linux"   -> 84
      [] os = "darwin"  -> 92
      [] os = "windows" -> 42

(***************************************************************************)
(* VerifyFailureTest.setup: the six stonewalled stanzas of one invocation, *)
(* in the order of the argument vector.                                    *)
(***************************************************************************)

SetupJobNames ==
    <<"layout", "success_only", "success_read", "mangle", "failure_only", "failure_read">>

(***************************************************************************)
(* VerifyFailureTest.check_result.                                         *)
(***************************************************************************)

\* elif 'success' in job['jobname'] (reached only when the name is not 'layout')
IsSuccessJob(jobname) == jobname # "layout" /\ Contains("success", jobname)

\* elif 'failure' in job['jobname'] (reached only after the three tests above it)
IsFailureJob(jobname) ==
    /\ jobname # "layout"
    /\ ~Contains("success", jobname)
    /\ jobname # "mangle"
    /\ Contains("failure", jobname)

\* the else branch: " unknown job name"
IsUnknownJob(jobname) ==
    /\ jobname # "layout"
    /\ ~Contains("success", jobname)
    /\ jobname # "mangle"
    /\ ~Contains("failure", jobname)

\* if job['error']: self.passed = False   (layout, success and mangle jobs)
MustSucceedRuleNoCheck(error) == TRUE

MustSucceedRule(error) == error = 0

\* the failure branch: verify == 'null' and not error -> continue;
\* error != errno.EILSEQ -> self.passed = False
FailureRuleNoNullCase(verify, error, os) == error = EILSEQ(os)

FailureRuleZeroForAll(verify, error, os) == error = 0 \/ error = EILSEQ(os)

FailureRuleLinuxCode(verify, error, os) ==
    \/ (verify = "null" /\ error = 0)
    \/ error = EILSEQ("linux")

FailureRule(verify, error, os) ==
    \/ (verify = "null" /\ error = 0)
    \/ error = EILSEQ(os)

\* One iteration of "for job in self.json_data['jobs']": TRUE when the
\* iteration leaves self.passed alone, FALSE when it sets it to False.
JobOk(job, verify, os) ==
    IF job.jobname = "layout" THEN MustSucceedRule(job.error)
    ELSE IF Contains("success", job.jobname) THEN MustSucceedRule(job.error)
    ELSE IF job.jobname = "mangle" THEN MustSucceedRule(job.error)
    ELSE IF Contains("failure", job.jobname) THEN FailureRule(verify, job.error, os)
    ELSE FALSE

\* checked[job['jobname']] = True in every branch but the last
Checked(jobs) ==
    { jobs[k].jobname : k \in { n \in 1..Len(jobs) : ~IsUnknownJob(jobs[n].jobname) } }

\* if len(checked) != 6: self.passed = False
PhaseCountAtLeast(checked) == Cardinality(checked) >= 6

PhaseCountOk(checked) == Cardinality(checked) = 6

\* the result check written with an assignment of the phases' verdict
check_result_Reassigns(jobs, verify, os, passed0) ==
    /\ \A k \in 1..Len(jobs) : JobOk(jobs[k], verify, os)
    /\ PhaseCountOk(Checked(jobs))

\* self.passed at the end of check_result, given self.passed after
\* super().check_result(): the rules only ever clear it.
check_result(jobs, verify, os, passed0) ==
    /\ passed0
    /\ \A k \in 1..Len(jobs) : JobOk(jobs[k], verify, os)
    /\ PhaseCountOk(Checked(jobs))

(***************************************************************************)
(* The module-level data of verify.py.  A test is a record; its fio_opts   *)
(* dictionary is a function from option name to value.  A key a dictionary *)
(* does not have is outside the function's domain; the keys 'success' and  *)
(* 'force_skip' of a test hold "unset" while the test has no such key.     *)
(***************************************************************************)

TEST_LIST_DDIR_FIXED_0 ==
    <<
        [test_id |-> 1000,
         fio_opts |->
            ("ioengine" :> "psync" @@ "filesize" :> "1M" @@ "bs" :> 4096 @@ "rw" :> "write" @@
             "output-format" :> "json"),
         test_class |-> "VerifyFailureTest",
         requirements |-> {},
         success |-> "SUCCESS_NONZERO",
         force_skip |-> "unset"],
        [test_id |-> 1001,
         fio_opts |->
            ("ioengine" :> "psync" @@ "filesize" :> "1M" @@ "bs" :> 4096 @@
             "rw" :> "randwrite" @@ "output-format" :> "json"),
         test_class |-> "VerifyFailureTest",
         requirements |-> {},
         success |-> "SUCCESS_NONZERO",
         force_skip |-> "unset"],
        [test_id |-> 1002,
         fio_opts |->
            ("direct" :> 1 @@ "ioengine" :> "libaio" @@ "iodepth" :> 16 @@
             "filesize" :> "1M" @@ "bs" :> 4096 @@ "rw" :> "write" @@
             "output-format" :> "json"),
         test_class |-> "VerifyFailureTest",
         requirements |-> {},
         success |-> "SUCCESS_NONZERO",
         force_skip |-> "unset"],
        [test_id |-> 1003,
         fio_opts |->
            ("direct" :> 1 @@ "ioengine" :> "libaio" @@ "iodepth" :> 16 @@
             "filesize" :> "1M" @@ "bs" :> 4096 @@ "rw" :> "randwrite" @@
             "output-format" :> "json"),
         test_class |-> "VerifyFailureTest",
         requirements |-> {},
         success |-> "SUCCESS_NONZERO",
         force_skip |-> "unset"]
    >>

TEST_LIST_0 ==
    <<
        [test_id |-> 1,
         fio_opts |->
            ("direct" :> 1 @@ "ioengine" :> "libaio" @@ "iodepth" :> 32 @@
             "filesize" :> "2M" @@ "bs" :> 512),
         test_class |-> "VerifyTest",
         requirements |-> {},
         success |-> "unset",
         force_skip |-> "unset"],
        [test_id |-> 2,
         fio_opts |->
            ("direct" :> 1 @@ "ioengine" :> "libaio" @@ "iodepth" :> 32 @@
             "filesize" :> "2M" @@ "norandommap" :> 1 @@ "bs" :> 512),
         test_class |-> "VerifyTest",
         requirements |-> {},
         success |-> "unset",
         force_skip |-> "unset"],
        [test_id |-> 3,
         fio_opts |->
            ("direct" :> 1 @@ "ioengine" :> "libaio" @@ "iodepth" :> 32 @@
             "filesize" :> "2M" @@ "norandommap" :> 1 @@ "bs" :> 512 @@
             "time_based" :> 1 @@ "runtime" :> 3 @@ "verify_backlog" :> 128 @@
             "verify_backlog_batch" :> 64),
         test_class |-> "VerifyTest",
         requirements |-> {},
         success |-> "unset",
         force_skip |-> "unset"],
        [test_id |-> 4,
         fio_opts |->
            ("direct" :> 1 @@ "ioengine" :> "libaio" @@ "iodepth" :> 32 @@
             "filesize" :> "2M" @@ "io_size" :> "4M" @@ "norandommap" :> 1 @@
             "bs" :> 4096 @@ "verify_interval" :> 2048 @@ "verify_offset" :> 1024),
         test_class |-> "VerifyTest",
         requirements |-> {},
         success |-> "unset",
         force_skip |-> "unset"],
        [test_id |-> 5,
         fio_opts |->
            ("direct" :> 1 @@ "ioengine" :> "libaio" @@ "iodepth" :> 32 @@
             "filesize" :> "2M" @@ "norandommap" :> 1 @@ "bs" :> 4096 @@
             "cpus_allowed" :> "0-3" @@ "verify_async" :> 2 @@
             "verify_async_cpus" :> "0-1"),
         test_class |-> "VerifyTest",
         requirements |-> {"not_macos", "cpucount4"},
         success |-> "unset",
         force_skip |-> "unset"],
        [test_id |-> 6,
         fio_opts |->
            ("direct" :> 1 @@ "ioengine" :> "libaio" @@ "iodepth" :> 32 @@
             "filesize" :> "4M" @@ "bs" :> 4096 @@ "cpus_allowed" :> "0-3" @@
             "time_based" :> 1 @@ "random_generator" :> "tausworthe" @@
             "runtime" :> 3 @@ "verify_interval" :> 2048 @@
             "verify_offset" :> 1024 @@ "verify_backlog" :> 128 @@
             "verify_backlog_batch" :> 128 @@ "verify_async" :> 2 @@
             "verify_async_cpus" :> "0-1"),
         test_class |-> "VerifyTest",
         requirements |-> {"not_macos", "cpucount4"},
         success |-> "unset",
         force_skip |-> "unset"],
        [test_id |-> 7,
         fio_opts |->
            ("direct" :> 1 @@ "ioengine" :> "libaio" @@ "iodepth" :> 32 @@
             "filesize" :> "4M" @@ "norandommap" :> 1 @@ "bs" :> 4096 @@
             "cpus_allowed" :> "0-3" @@ "time_based" :> 1 @@ "runtime" :> 3 @@
             "verify_interval" :> 2048 @@ "verify_offset" :> 1024 @@
             "verify_backlog" :> 128 @@ "verify_backlog_batch" :> 128 @@
             "verify_async" :> 2 @@ "verify_async_cpus" :> "0-1"),
         test_class |-> "VerifyTest",
         requirements |-> {"not_macos", "cpucount4"},
         success |-> "unset",
         force_skip |-> "unset"],
        [test_id |-> 8,
         fio_opts |->
            ("direct" :> 1 @@ "ioengine" :> "libaio" @@ "iodepth" :> 32 @@
             "filesize" :> "512K" @@ "nrfiles" :> 3 @@ "openfiles" :> 2 @@
             "numjobs" :> 2 @@ "norandommap" :> 1 @@ "bs" :> 4096 @@
             "time_based" :> 1 @@ "runtime" :> 20 @@ "verify_interval" :> 2048 @@
             "verify_offset" :> 1024 @@ "verify_backlog" :> 16 @@
             "verify_backlog_batch" :> 16),
         test_class |-> "VerifyTest",
         requirements |-> {},
         success |-> "unset",
         force_skip |-> "unset"]
    >>


DDIR_LIST_ReadsFirst == <<"read", "readwrite", "write", "randread", "randrw", "randwrite">>

DDIR_LIST == <<"write", "readwrite", "read", "randwrite", "randrw", "randread">>

CSUM_LIST1 == <<"md5", "crc64", "pattern">>

CSUM_LIST2 ==
    <<"md5", "crc64", "crc32c", "crc32c-intel", "crc16", "crc7", "xxhash", "sha512",
      "sha256", "sha1", "sha3-224", "sha3-384", "sha3-512", "pattern", "null">>

MANGLE_JOB_BS == 0

\* mangle_bs = [MANGLE_JOB_BS, 4]
mangle_bs == <<MANGLE_JOB_BS, 4>>

\* dictionary helpers: d[k] = v and d.pop(k, None)
DictSet(d, k, v) == (k :> v) @@ d

DictPop(d, k) == [x \in (DOMAIN d) \ {k} |-> d[x]]

\* list(itertools.product(a, b)): the first list is the outer loop
Product(a, b) ==
    [k \in 1..(Len(a) * Len(b)) |->
        <<a[((k - 1) \div Len(b)) + 1], b[((k - 1) % Len(b)) + 1]>>]

\* main: the checksum list in effect
csum_list(a) ==
    IF a.csum # <<>> THEN a.csum
    ELSE IF a.complete THEN CSUM_LIST2 ELSE CSUM_LIST1

\* main: artifact_root (a stand-in for the time-stamped default name)
artifact_root(a) ==
    IF a.artifact_root # "" THEN a.artifact_root ELSE "verify-test-20240101-000000"

\* main: the engine names of the platform, written into both lists
AdjustEngine(test, os) ==
    LET aio  == IF os = "linux" THEN "libaio"
                ELSE IF os = "windows" THEN "windowsaio" ELSE "posixaio"
        sync == IF os = "windows" THEN "sync" ELSE "psync"
        e1   == IF Contains("aio", test.fio_opts["ioengine"]) THEN aio
                ELSE test.fio_opts["ioengine"]
        e2   == IF Contains("sync", e1) THEN sync ELSE e1
    IN  [test EXCEPT !.fio_opts = DictSet(@, "ioengine", e2)]

\* directory.replace(':', '\\:') on Windows
EscapeColons(os, directory) ==
    IF os # "windows" THEN directory ELSE Replace(directory, ":", "\\:")

\* verify_test, lines 477-491: the directory a read-class test is pointed at
\* (target is the label put in place of the current direction's)
FixtureDirectory(env_root, ddir, target, test_id, os) ==
    EscapeColons(os, Absolute(os, Join(os, Replace(env_root, "ddir_" \o ddir,
                                                   "ddir_" \o target),
                                       Pad4(test_id))))

\* verify_test's loop body: the test of the list after the adjustment
\* (first written as a replacement of the whole option dictionary)
AdjustTestFreshOpts(test, env_root, ddir, csum, os) ==
    [test EXCEPT !.force_skip = "False",
                 !.fio_opts = ("ioengine" :> test.fio_opts["ioengine"] @@
                               "rw" :> ddir @@ "verify" :> csum)]

AdjustTest(test, env_root, ddir, csum, os) ==
    LET o1 == DictSet(DictSet(test.fio_opts, "rw", ddir), "verify", csum)
        o2 == IF csum = "pattern"
              THEN DictSet(o1, "verify_pattern", "\"abcd\"-120xdeadface")
              ELSE DictPop(o1, "verify_pattern")
        o3 == IF ddir = "read"
              THEN DictSet(o2, "directory",
                           FixtureDirectory(env_root, ddir, "write", test.test_id, os))
              ELSE IF ddir = "randread"
              THEN DictSet(o2, "directory",
                           FixtureDirectory(env_root, ddir, "randwrite", test.test_id, os))
              ELSE DictPop(o2, "directory")
    IN  [test EXCEPT !.force_skip = "False", !.fio_opts = o3]

\* verify_test: TEST_LIST after the loop
verify_test(list, env_root, ddir, csum, os) ==
    [k \in 1..Len(list) |-> AdjustTest(list[k], env_root, ddir, csum, os)]

\* the loop body without the removal of a verify_pattern left by an earlier
\* iteration
AdjustFixedTestKeepsPattern(test, mbs, csum) ==
    LET o1 == DictSet(test.fio_opts, "verify", csum)
        o2 == IF csum = "pattern"
              THEN DictSet(o1, "verify_pattern", "\"abcd\"-120xdeadface")
              ELSE o1
        o3 == IF mbs = MANGLE_JOB_BS
              THEN DictSet(o2, "mangle_bs", o2["bs"])
              ELSE DictSet(o2, "mangle_bs", mbs)
    IN  [test EXCEPT !.force_skip = "False",
                     !.fio_opts = o3,
                     !.success = IF csum = "null" THEN "SUCCESS_DEFAULT"
                                 ELSE "SUCCESS_NONZERO"]

\* the loop body with a mangle size that the partial mode sets only when
\* the test has none yet
AdjustFixedTestStickyMangleBs(test, mbs, csum) ==
    LET o1 == DictSet(test.fio_opts, "verify", csum)
        o2 == IF csum = "pattern"
              THEN DictSet(o1, "verify_pattern", "\"abcd\"-120xdeadface")
              ELSE DictPop(o1, "verify_pattern")
        o3 == IF mbs = MANGLE_JOB_BS
              THEN DictSet(o2, "mangle_bs", o2["bs"])
              ELSE IF "mangle_bs" \in DOMAIN o2 THEN o2
              ELSE DictSet(o2, "mangle_bs", mbs)
    IN  [test EXCEPT !.force_skip = "False",
                     !.fio_opts = o3,
                     !.success = IF csum = "null" THEN "SUCCESS_DEFAULT"
                                 ELSE "SUCCESS_NONZERO"]

\* the loop body with a success criterion that is written for 'null' only
AdjustFixedTestStickySuccess(test, mbs, csum) ==
    LET o1 == DictSet(test.fio_opts, "verify", csum)
        o2 == IF csum = "pattern"
              THEN DictSet(o1, "verify_pattern", "\"abcd\"-120xdeadface")
              ELSE DictPop(o1, "verify_pattern")
        o3 == IF mbs = MANGLE_JOB_BS
              THEN DictSet(o2, "mangle_bs", o2["bs"])
              ELSE DictSet(o2, "mangle_bs", mbs)
    IN  [test EXCEPT !.force_skip = "False",
                     !.fio_opts = o3,
                     !.success = IF csum = "null" THEN "SUCCESS_DEFAULT"
                                 ELSE test.success]

\* verify_test_csum's loop body
AdjustFixedTest(test, mbs, csum) ==
    LET o1 == DictSet(test.fio_opts, "verify", csum)
        o2 == IF csum = "pattern"
              THEN DictSet(o1, "verify_pattern", "\"abcd\"-120xdeadface")
              ELSE DictPop(o1, "verify_pattern")
        o3 == IF mbs = MANGLE_JOB_BS
              THEN DictSet(o2, "mangle_bs", o2["bs"])
              ELSE DictSet(o2, "mangle_bs", mbs)
    IN  [test EXCEPT !.force_skip = "False",
                     !.fio_opts = o3,
                     !.success = IF csum = "null" THEN "SUCCESS_DEFAULT"
                                 ELSE "SUCCESS_NONZERO"]

\* verify_test_csum: TEST_LIST_DDIR_FIXED after the loop
verify_test_csum(list, mbs, csum) ==
    [k \in 1..Len(list) |-> AdjustFixedTest(list[k], mbs, csum)]

\* what the statements of verify_test's loop body write, in their order:
\* the two keys of the test and the keys of its fio_opts
verify_test_writes == <<"force_skip", "rw", "verify", "verify_pattern", "directory">>

\* the same of verify_test_csum's loop body
verify_test_csum_writes ==
    <<"force_skip", "verify", "verify_pattern", "mangle_bs", "success">>

\* a test that a loop body was leaving as adjusted when the body was left
\* after its first s statements: what those statements write is written
\* (or popped), the rest of the test is as it was
AdjustUpTo(test, adjusted, writes, s) ==
    LET done == { writes[i] : i \in 1..s }
        opts == done \ {"force_skip", "success"}
        keys == ((DOMAIN test.fio_opts) \ (opts \ DOMAIN adjusted.fio_opts))
                    \cup (opts \cap DOMAIN adjusted.fio_opts)
    IN  [test EXCEPT
            !.force_skip = IF "force_skip" \in done THEN adjusted.force_skip ELSE @,
            !.success = IF "success" \in done THEN adjusted.success ELSE @,
            !.fio_opts = [k \in keys |-> IF k \in opts THEN adjusted.fio_opts[k]
                                         ELSE test.fio_opts[k]]]

\* verify_test left by an exception after j whole iterations of its loop and
\* s statements of the next: TEST_LIST as it is then
verify_test_upto(list, env_root, ddir, csum, os, j, s) ==
    [k \in 1..Len(list) |->
        IF k <= j THEN AdjustTest(list[k], env_root, ddir, csum, os)
        ELSE IF k = j + 1
        THEN AdjustUpTo(list[k], AdjustTest(list[k], env_root, ddir, csum, os),
                        verify_test_writes, s)
        ELSE list[k]]

\* verify_test_csum left the same way: TEST_LIST_DDIR_FIXED as it is then
verify_test_csum_upto(list, mbs, csum, j, s) ==
    [k \in 1..Len(list) |->
        IF k <= j THEN AdjustFixedTest(list[k], mbs, csum)
        ELSE IF k = j + 1
        THEN AdjustUpTo(list[k], AdjustFixedTest(list[k], mbs, csum),
                        verify_test_csum_writes, s)
        ELSE list[k]]

(***************************************************************************)
(* The reports the result check is tried on: the report of the six         *)
(* stanzas, and reports that deviate from it by a missing, a renamed or an *)
(* additional job, each job with every error code of ErrorCodes.           *)
(***************************************************************************)

MaxExtraJobs == 1

\* a nonzero errno other than EILSEQ on every platform (EIO)
OtherError == 5

ErrorCodes(os) == {0, OtherError, EILSEQ(os)}

RemoveAt(s, k) == SubSeq(s, 1, k - 1) \o SubSeq(s, k + 1, Len(s))

ReplaceAt(s, k, x) == [s EXCEPT ![k] = x]

\* the four phases as the specification names them
FourPhases == <<"layout", "success", "mangle", "failure">>

ExtraJobNames == {"layout", "failure_extra"}

RECURSIVE ExtraSeqs(_)
ExtraSeqs(n) ==
    IF n = 0 THEN {<<>>}
    ELSE LET shorter == ExtraSeqs(n - 1)
         IN  shorter \cup { Append(s, x) : s \in { q \in shorter : Len(q) = n - 1 },
                                           x \in ExtraJobNames }

JobNameSeqs ==
    {FourPhases}
      \cup { RemoveAt(SetupJobNames, k) : k \in 1..Len(SetupJobNames) }
      \cup { ReplaceAt(SetupJobNames, k, "bogus") : k \in 1..Len(SetupJobNames) }
      \cup { SetupJobNames \o e : e \in ExtraSeqs(MaxExtraJobs) }

\* the error codes tried for the k-th job of a report: all three for the
\* six stanzas, zero and the expected code for the jobs after them
ErrorsAt(os, k) == IF k <= Len(SetupJobNames) THEN ErrorCodes(os) ELSE {0, EILSEQ(os)}

Reports(os) ==
    UNION { { [k \in 1..Len(names) |-> [jobname |-> names[k], error |-> errs[k]]] :
                errs \in { e \in [1..Len(names) -> ErrorCodes(os)] :
                              \A k \in 1..Len(names) : e[k] \in ErrorsAt(os, k) } } :
            names \in JobNameSeqs }

JobNames(jobs) == [k \in 1..Len(jobs) |-> jobs[k].jobname]

(***************************************************************************)
(* main and the test runner.  run_fio_tests, the test classes' base        *)
(* result check and fio itself are not part of verify.py; they are         *)
(* modelled by their contract.                                             *)
(***************************************************************************)

ZeroTally == [passed |-> 0, failed |-> 0, skipped |-> 0]

NoCase == [matrix |-> "none", ddir |-> "", mbs |-> -1, csum |-> "", test_id |-> 0,
           outcome |-> "none", directory |-> "", report |-> "", jobs |-> <<>>]

NoArgs == [artifact_root |-> "", csum |-> <<>>, complete |-> FALSE,
           skip |-> {}, run_only |-> {}, skip_req |-> FALSE]

\* the main variables while main is not running
MainIdle ==
    /\ cpucount = 4
    /\ active = {}
    /\ args = NoArgs
    /\ pc = "idle"
    /\ combo = 0
    /\ tnum = 0
    /\ test_env = ""
    /\ TEST_LIST = TEST_LIST_0
    /\ TEST_LIST_DDIR_FIXED = TEST_LIST_DDIR_FIXED_0
    /\ total = ZeroTally
    /\ tally = ZeroTally
    /\ dirs = {}
    /\ ran = <<>>
    /\ fixtures = <<>>
    /\ last = NoCase
    /\ interrupted = FALSE
    /\ exitcode = -1

\* run_fio_tests: a test the user asked to skip
UserSkip(test, a) ==
    \/ (a.skip # {} /\ test.test_id \in a.skip)
    \/ (a.run_only # {} /\ test.test_id \notin a.run_only)
    \/ test.force_skip = "True"

\* Requirements: the environment predicates the tests name
ReqMet(req, os, cpus) ==
    CASE req = "not_macos" -> os # "darwin"
      [] req = "cpucount4" -> cpus >= 4

\* the variant of ReqSkip that checks the requirements whatever --skip-req says
ReqSkipAlways(test, a, os, cpus) ==
    \E req \in test.requirements : ~ReqMet(req, os, cpus)

\* run_fio_tests: a test whose requirements the host does not meet; the
\* requirements are not looked at with --skip-req
ReqSkip(test, a, os, cpus) ==
    /\ ~a.skip_req
    /\ \E req \in test.requirements : ~ReqMet(req, os, cpus)

\* the numbered subdirectory a test runs in
TestDir(env_root, test_id, os) == Join(os, env_root, Pad4(test_id))

\* a directory as fio is given it on the command line
FioPath(os, d) == EscapeColons(os, Absolute(os, d))

\* fio: the directory option names a directory that exists
DirectoryExists(directory, os, ds) == \E d \in ds : FioPath(os, d) = directory

\* fio's exit codes for a plain verify job: it fails when it is pointed at a
\* directory that does not exist
SutExitCodes(test, os, ds) ==
    IF "directory" \in DOMAIN test.fio_opts
       /\ ~DirectoryExists(test.fio_opts["directory"], os, ds)
    THEN {1}
    ELSE {0, 1}

\* fio's reports for a fault-injection invocation
SutReports(os) ==
    LET Report(errs) ==
            [k \in 1..Len(SetupJobNames) |-> [jobname |-> SetupJobNames[k], error |-> errs[k]]]
    IN  { Report(<<0, 0, 0, 0, 0, 0>>),
          Report(<<0, 0, 0, 0, EILSEQ(os), EILSEQ(os)>>),
          Report(<<0, 0, 0, OtherError, EILSEQ(os), EILSEQ(os)>>),
          SubSeq(Report(<<0, 0, 0, 0, EILSEQ(os), EILSEQ(os)>>), 1, 5) }

\* what a fault-injection invocation leaves behind: a report that decodes,
\* or none
SutOutcomes(os) ==
    { [decoded |-> TRUE, jobs |-> r] : r \in SutReports(os) }
    \cup { [decoded |-> FALSE, jobs |-> <<>>] }

\* fio exits nonzero when a job of the invocation reports an error
ReportExitCode(jobs) == IF \E k \in 1..Len(jobs) : jobs[k].error # 0 THEN 1 ELSE 0

\* the base result check: the exit code against the test's success criterion
ExitOk(success, code) ==
    IF success = "SUCCESS_NONZERO" THEN code # 0 ELSE code = 0

\* the exit status a caller sees for sys.exit(n): POSIX keeps the low eight
\* bits; Windows keeps 32, more than any count of cases here
ExitStatus(os, n) == IF os = "windows" THEN n ELSE n % 256

\* the exit status of a Python process that ends on an uncaught exception
UncaughtExit == 1

Count(t, outcome) ==
    CASE outcome = "passed"  -> [t EXCEPT !.passed = @ + 1]
      [] outcome = "failed"  -> [t EXCEPT !.failed = @ + 1]
      [] outcome = "skipped" -> [t EXCEPT !.skipped = @ + 1]

AddTally(a, b) ==
    [passed |-> a.passed + b.passed, failed |-> a.failed + b.failed,
     skipped |-> a.skipped + b.skipped]

DdirCombos == Product(DDIR_LIST, csum_list(args))

MangleCombos == Product(mangle_bs, csum_list(args))

WriteClass == {"write", "randwrite"}

(***************************************************************************)
(* SpecJudge: one fault-injection case is judged.                          *)
(***************************************************************************)

JudgeInit ==
    /\ platform \in Platforms
    /\ fio_verify \in {"md5", "null"}
    /\ json_data \in Reports(platform)
    /\ base_passed \in BOOLEAN
    /\ passed = base_passed
    /\ jpc = "super_done"
    /\ MainIdle
    /\ ToolsIdle

CheckResult ==
    /\ jpc = "super_done"
    /\ passed' = check_result(json_data, fio_verify, platform, passed)
    /\ jpc' = "checked"
    /\ UNCHANGED <<platform, cpucount, active, phases, pool, ovars, fio_verify, json_data, base_passed, mvars>>

JudgeNext == CheckResult

SpecJudge == JudgeInit /\ [][JudgeNext]_vars

(***************************************************************************)
(* Properties of the result check (SpecJudge).                             *)
(***************************************************************************)

Judged == jpc = "checked"

JobNameSet(jobs) == { jobs[k].jobname : k \in 1..Len(jobs) }

\* every job that check_result holds to "error must be 0" reports 0
SetupPhasesClean(jobs) ==
    \A k \in 1..Len(jobs) :
        (jobs[k].jobname \in {"layout", "mangle"} \/ IsSuccessJob(jobs[k].jobname))
            => jobs[k].error = 0

\* everything but the failure phases' error codes is in order
AllButFailureInOrder ==
    /\ base_passed
    /\ JobNames(json_data) = SetupJobNames
    /\ SetupPhasesClean(json_data)

\* C1 (as stated): a case is judged passed only if its report consists of
\* exactly the four phases layout, success, mangle and failure.
C1_FourPhasesOnly ==
    (Judged /\ passed) =>
        (Len(json_data) = 4 /\ JobNameSet(json_data) = {"layout", "success", "mangle", "failure"})

\* C1 (amended): a case is judged passed only if every job of the report has
\* a recognised name ('layout', 'mangle', or one containing 'success' or
\* 'failure') and the report has exactly six distinct job names; in
\* particular the report of the four phases layout, success, mangle, failure
\* is judged failed.
C1_SixDistinctRecognisedNames ==
    Judged =>
        /\ passed => /\ \A k \in 1..Len(json_data) : ~IsUnknownJob(json_data[k].jobname)
                     /\ Cardinality(JobNameSet(json_data)) = 6
        /\ JobNames(json_data) = FourPhases => ~passed

C1_Witness ==
    /\ Judged
    /\ passed
    /\ JobNames(json_data) = SetupJobNames

\* C2: with a checksum other than 'null', a case is judged passed only if
\* every failure phase reports exactly the platform's EILSEQ code.
C2_NonNullFailureMustBeEILSEQ ==
    (Judged /\ fio_verify # "null" /\ passed) =>
        \A k \in 1..Len(json_data) :
            IsFailureJob(json_data[k].jobname) => json_data[k].error = EILSEQ(platform)

C2_Witness ==
    /\ Judged
    /\ fio_verify = "md5"
    /\ passed
    /\ \E k \in 1..Len(json_data) :
          IsFailureJob(json_data[k].jobname) /\ json_data[k].error = EILSEQ(platform)

\* C3 (as stated): with checksum 'null' the failure phases' error codes are
\* unconstrained: when everything else is in order the case is judged passed
\* whatever the failure phases report.
C3_NullFailureUnconstrained ==
    (Judged /\ fio_verify = "null" /\ AllButFailureInOrder) => passed

\* C3 (amended): with checksum 'null' a failure phase may report 0 or the
\* platform's EILSEQ code; when everything else is in order the case is
\* judged passed exactly when every failure phase reports one of the two.
C3_NullFailureZeroOrEILSEQ ==
    (Judged /\ fio_verify = "null" /\ AllButFailureInOrder) =>
        (passed <=>
            \A k \in 1..Len(json_data) :
                IsFailureJob(json_data[k].jobname) =>
                    json_data[k].error \in {0, EILSEQ(platform)})

C3_Witness ==
    /\ Judged
    /\ fio_verify = "null"
    /\ passed
    /\ \E k, n \in 1..Len(json_data) :
          /\ IsFailureJob(json_data[k].jobname) /\ json_data[k].error = 0
          /\ IsFailureJob(json_data[n].jobname) /\ json_data[n].error = EILSEQ(platform)

\* C4: with checksum 'null', the report of the case's invocation in which
\* layout, the success phases, mangle and the failure phases all report 0 is
\* judged passed (the base check having passed).
C4_NullAllZeroPasses ==
    ( /\ Judged
      /\ fio_verify = "null"
      /\ base_passed
      /\ JobNames(json_data) = SetupJobNames
      /\ \A k \in 1..Len(json_data) : json_data[k].error = 0 ) => passed

C4_Witness ==
    /\ Judged
    /\ fio_verify = "null"
    /\ base_passed
    /\ JobNames(json_data) = SetupJobNames
    /\ \A k \in 1..Len(json_data) : json_data[k].error = 0
    /\ passed

\* C5: for every checksum, a case is judged passed only if the layout phase,
\* every success phase and the mangle phase report error code 0.
C5_SetupPhasesMustSucceed ==
    (Judged /\ passed) => SetupPhasesClean(json_data)

C5_Witness ==
    /\ Judged
    /\ passed
    /\ fio_verify = "null"
    /\ \E k \in 1..Len(json_data) : json_data[k].jobname = "layout"
    /\ \E k \in 1..Len(json_data) : json_data[k].jobname = "mangle"
    /\ \E k \in 1..Len(json_data) : IsSuccessJob(json_data[k].jobname)

\* C6: the code the failure rule compares against is 84 on linux, 92 on
\* darwin and 42 on windows: with a checksum other than 'null' and everything
\* else in order, the case is judged passed exactly when every failure phase
\* reports that code.
C6_PlatformCode ==
    (Judged /\ fio_verify # "null" /\ AllButFailureInOrder) =>
        (passed <=>
            \A k \in 1..Len(json_data) :
                IsFailureJob(json_data[k].jobname) =>
                    /\ platform = "linux" => json_data[k].error = 84
                    /\ platform = "darwin" => json_data[k].error = 92
                    /\ platform = "windows" => json_data[k].error = 42)

C6_Witness ==
    /\ Judged
    /\ fio_verify = "md5"
    /\ platform = "darwin"
    /\ passed
    /\ \E k \in 1..Len(json_data) :
          IsFailureJob(json_data[k].jobname) /\ json_data[k].error = 92

(***************************************************************************)
(* Spec: main drives the two matrices.                                     *)
(***************************************************************************)

\* the judge variables while no case is being judged on its own
JudgeIdle ==
    /\ fio_verify = ""
    /\ json_data = <<>>
    /\ base_passed = FALSE
    /\ passed = FALSE
    /\ jpc = "idle"

\* the directories a run of the harness with -a root, --csum csum and -o
\* test_id leaves behind: the root, one directory for each combination of
\* both matrices and, in it, the directory of the test
EarlierRun(root, csum, test_id, os) ==
    LET combos == { Join(os, root, "ddir_" \o DDIR_LIST[k] \o "_csum_" \o csum) :
                       k \in 1..Len(DDIR_LIST) }
                  \cup { Join(os, root, "mbs_" \o ToString(mangle_bs[k]) \o "_csum_" \o csum) :
                            k \in 1..Len(mangle_bs) }
    IN  {root} \cup combos \cup { TestDir(c, test_id, os) : c \in combos }

\* the command lines and hosts the runs are started with, and the
\* directories that exist when the run starts: none of the harness's, those
\* of an earlier run under another root, or the root the run is given
Invocations ==
    { [os |-> "linux", cpus |-> 4, dirs |-> {},
       args |-> [NoArgs EXCEPT !.csum = <<"md5">>, !.run_only = {1, 1001}]],
      [os |-> "linux", cpus |-> 8, dirs |-> {},
       args |-> [NoArgs EXCEPT !.artifact_root = "ddir_read_x", !.csum = <<"md5">>,
                               !.run_only = {7}]],
      [os |-> "linux", cpus |-> 8, dirs |-> EarlierRun("ddir_write_x", "md5", 7, "linux"),
       args |-> [NoArgs EXCEPT !.artifact_root = "ddir_read_x", !.csum = <<"md5">>,
                               !.run_only = {7}]],
      [os |-> "linux", cpus |-> 4, dirs |-> EarlierRun("art", "md5", 1, "linux"),
       args |-> [NoArgs EXCEPT !.artifact_root = "art", !.csum = <<"md5">>,
                               !.run_only = {1}]],
      [os |-> "darwin", cpus |-> 8, dirs |-> {},
       args |-> [NoArgs EXCEPT !.artifact_root = "art", !.csum = <<"null", "pattern">>,
                               !.run_only = {4, 1000}]],
      [os |-> "windows", cpus |-> 4, dirs |-> {},
       args |-> [NoArgs EXCEPT !.artifact_root = "art", !.csum = <<"crc32c", "null">>,
                               !.skip = {1, 2, 3, 5, 6, 7, 8, 1000, 1001, 1002}]],
      [os |-> "linux", cpus |-> 4, dirs |-> {},
       args |-> [NoArgs EXCEPT !.csum = <<"md5", "md5">>, !.run_only = {1}]],
      [os |-> "darwin", cpus |-> 8, dirs |-> {},
       args |-> [NoArgs EXCEPT !.artifact_root = "art", !.csum = <<"md5">>,
                               !.run_only = {5}]],
      [os |-> "linux", cpus |-> 2, dirs |-> {},
       args |-> [NoArgs EXCEPT !.artifact_root = "art", !.csum = <<"md5">>,
                               !.run_only = {6, 8}]],
      [os |-> "linux", cpus |-> 2, dirs |-> {},
       args |-> [NoArgs EXCEPT !.artifact_root = "art", !.csum = <<"md5">>,
                               !.run_only = {6}, !.skip_req = TRUE]],
      [os |-> "darwin", cpus |-> 2, dirs |-> {},
       args |-> [NoArgs EXCEPT !.artifact_root = "art", !.csum = <<"crc64">>,
                               !.run_only = {7}, !.skip_req = TRUE]] }

Init ==
    /\ \E inv \in Invocations :
          platform = inv.os /\ cpucount = inv.cpus /\ args = inv.args /\ dirs = inv.dirs
    /\ active = {}
    /\ pc = "start"
    /\ combo = 0
    /\ tnum = 0
    /\ test_env = ""
    /\ TEST_LIST = TEST_LIST_0
    /\ TEST_LIST_DDIR_FIXED = TEST_LIST_DDIR_FIXED_0
    /\ total = ZeroTally
    /\ tally = ZeroTally
    /\ ran = <<>>
    /\ fixtures = <<>>
    /\ last = NoCase
    /\ interrupted = FALSE
    /\ exitcode = -1
    /\ JudgeIdle
    /\ ToolsIdle

\* main up to the first matrix: the artifact root is made (os.mkdir raises
\* when it exists, outside the try block), the engine names of the platform
\* are written into both lists
Startup ==
    /\ pc = "start"
    /\ IF artifact_root(args) \in dirs
       THEN /\ pc' = "crashed"
            /\ exitcode' = UncaughtExit
            /\ UNCHANGED <<dirs, test_env, TEST_LIST, TEST_LIST_DDIR_FIXED, combo>>
       ELSE /\ dirs' = dirs \cup {artifact_root(args)}
            /\ test_env' = artifact_root(args)
            /\ TEST_LIST' = [k \in 1..Len(TEST_LIST) |-> AdjustEngine(TEST_LIST[k], platform)]
            /\ TEST_LIST_DDIR_FIXED' =
                  [k \in 1..Len(TEST_LIST_DDIR_FIXED) |->
                      AdjustEngine(TEST_LIST_DDIR_FIXED[k], platform)]
            /\ pc' = "ddir"
            /\ combo' = 1
            /\ UNCHANGED exitcode
    /\ UNCHANGED <<platform, cpucount, active, phases, pool, ovars, jvars, args, tnum, total, tally, ran, fixtures, last,
                   interrupted>>

\* one iteration of the first loop up to the call of run_fio_tests: the
\* combination's directory is made (os.mkdir raises when it exists, and
\* nothing in main catches that) and verify_test adjusts TEST_LIST
StartDdirCombo ==
    /\ pc = "ddir"
    /\ tnum = 0
    /\ LET ddir == DdirCombos[combo][1]
           csum == DdirCombos[combo][2]
           path == Join(platform, artifact_root(args), "ddir_" \o ddir \o "_csum_" \o csum)
       IN  /\ test_env' = path
           /\ IF path \in dirs
              THEN /\ pc' = "crashed"
                   /\ exitcode' = UncaughtExit
                   /\ UNCHANGED <<dirs, TEST_LIST, tnum, tally, ran>>
              ELSE /\ dirs' = dirs \cup {path}
                   /\ TEST_LIST' = verify_test(TEST_LIST, path, ddir, csum, platform)
                   /\ tnum' = 1
                   /\ tally' = ZeroTally
                   /\ ran' = Append(ran, [matrix |-> "ddir", ddir |-> ddir, mbs |-> -1,
                                           csum |-> csum])
                   /\ pc' = pc
                   /\ exitcode' = exitcode
    /\ UNCHANGED <<platform, cpucount, active, phases, pool, ovars, jvars, args, combo, TEST_LIST_DDIR_FIXED,
                   total, fixtures, last, interrupted>>

\* one iteration of the second loop up to the call of run_fio_tests
StartMangleCombo ==
    /\ pc = "mangle"
    /\ tnum = 0
    /\ LET mbs  == MangleCombos[combo][1]
           csum == MangleCombos[combo][2]
           path == Join(platform, artifact_root(args),
                        "mbs_" \o ToString(mbs) \o "_csum_" \o csum)
       IN  /\ test_env' = path
           /\ IF path \in dirs
              THEN /\ pc' = "crashed"
                   /\ exitcode' = UncaughtExit
                   /\ UNCHANGED <<dirs, TEST_LIST_DDIR_FIXED, tnum, tally, ran>>
              ELSE /\ dirs' = dirs \cup {path}
                   /\ TEST_LIST_DDIR_FIXED' = verify_test_csum(TEST_LIST_DDIR_FIXED, mbs, csum)
                   /\ tnum' = 1
                   /\ tally' = ZeroTally
                   /\ ran' = Append(ran, [matrix |-> "mangle", ddir |-> "", mbs |-> mbs,
                                           csum |-> csum])
                   /\ pc' = pc
                   /\ exitcode' = exitcode
    /\ UNCHANGED <<platform, cpucount, active, phases, pool, ovars, jvars, args, combo, TEST_LIST, total,
                   fixtures, last, interrupted>>

\* run_fio_tests, one test of TEST_LIST: skipped on the user's request or
\* for a requirement the host does not meet, or set up in its own directory,
\* run and judged by fio's exit code
RunDdirCase ==
    /\ pc = "ddir"
    /\ tnum \in 1..Len(TEST_LIST)
    /\ LET test == TEST_LIST[tnum]
           ddir == DdirCombos[combo][1]
           csum == DdirCombos[combo][2]
           dir  == TestDir(test_env, test.test_id, platform)
           case == [matrix |-> "ddir", ddir |-> ddir, mbs |-> -1, csum |-> csum,
                    test_id |-> test.test_id, outcome |-> "skipped",
                    directory |-> IF "directory" \in DOMAIN test.fio_opts
                                  THEN test.fio_opts["directory"] ELSE "",
                    report |-> "", jobs |-> <<>>]
       IN  IF UserSkip(test, args) \/ ReqSkip(test, args, platform, cpucount)
           THEN /\ tally' = Count(tally, "skipped")
                /\ last' = case
                /\ UNCHANGED <<dirs, fixtures>>
           ELSE \E code \in SutExitCodes(test, platform, dirs \cup {dir}) :
                  LET outcome == IF ExitOk("SUCCESS_DEFAULT", code) THEN "passed"
                                 ELSE "failed"
                  IN  /\ dirs' = dirs \cup {dir}
                      /\ tally' = Count(tally, outcome)
                      /\ last' = [case EXCEPT !.outcome = outcome]
                      /\ fixtures' = IF ddir \in WriteClass
                                     THEN (dir :> outcome) @@ fixtures
                                     ELSE fixtures
    /\ tnum' = tnum + 1
    /\ UNCHANGED <<platform, cpucount, active, phases, pool, ovars, jvars, args, pc, combo, test_env, TEST_LIST,
                   TEST_LIST_DDIR_FIXED, total, ran, interrupted, exitcode>>

\* run_fio_tests, one test of TEST_LIST_DDIR_FIXED: skipped, or run and
\* judged by the base check and check_result.  Without a report that decodes
\* the base check fails the case and self.json_data holds no report when
\* check_result subscripts it; the runner either contains the exception and
\* the case stays failed, or the exception ends the run.
RunMangleCase ==
    /\ pc = "mangle"
    /\ tnum \in 1..Len(TEST_LIST_DDIR_FIXED)
    /\ LET test == TEST_LIST_DDIR_FIXED[tnum]
           mbs  == MangleCombos[combo][1]
           csum == MangleCombos[combo][2]
           dir  == TestDir(test_env, test.test_id, platform)
           case == [matrix |-> "mangle", ddir |-> "", mbs |-> mbs, csum |-> csum,
                    test_id |-> test.test_id, outcome |-> "skipped", directory |-> "",
                    report |-> "", jobs |-> <<>>]
       IN  IF UserSkip(test, args) \/ ReqSkip(test, args, platform, cpucount)
           THEN /\ tally' = Count(tally, "skipped")
                /\ last' = case
                /\ tnum' = tnum + 1
                /\ UNCHANGED <<dirs, pc, exitcode>>
           ELSE \E out \in SutOutcomes(platform) :
                  IF out.decoded
                  THEN LET base    == ExitOk(test.success, ReportExitCode(out.jobs))
                           outcome == IF check_result(out.jobs, test.fio_opts["verify"],
                                                      platform, base)
                                      THEN "passed" ELSE "failed"
                       IN  /\ dirs' = dirs \cup {dir}
                           /\ tally' = Count(tally, outcome)
                           /\ last' = [case EXCEPT !.outcome = outcome,
                                                   !.report = "decoded",
                                                   !.jobs = out.jobs]
                           /\ tnum' = tnum + 1
                           /\ UNCHANGED <<pc, exitcode>>
                  ELSE \E contained \in BOOLEAN :
                         /\ dirs' = dirs \cup {dir}
                         /\ IF contained
                            THEN /\ tally' = Count(tally, "failed")
                                 /\ last' = [case EXCEPT !.outcome = "failed",
                                                         !.report = "absent"]
                                 /\ tnum' = tnum + 1
                                 /\ UNCHANGED <<pc, exitcode>>
                            ELSE /\ pc' = "crashed"
                                 /\ exitcode' = UncaughtExit
                                 /\ last' = [case EXCEPT !.outcome = "raised",
                                                         !.report = "absent"]
                                 /\ UNCHANGED <<tally, tnum>>
    /\ UNCHANGED <<platform, cpucount, active, phases, pool, ovars, jvars, args, combo, test_env, TEST_LIST,
                   TEST_LIST_DDIR_FIXED, total, ran, fixtures, interrupted>>

\* run_fio_tests returns and its counters are gone; main adds the three
\* counts it returned to total and the loop moves to the next combination,
\* the next matrix or the report
ReturnCombo ==
    /\ \/ pc = "ddir" /\ tnum = Len(TEST_LIST) + 1
       \/ pc = "mangle" /\ tnum = Len(TEST_LIST_DDIR_FIXED) + 1
    /\ total' = AddTally(total, tally)
    /\ tally' = ZeroTally
    /\ tnum' = 0
    /\ IF pc = "ddir"
       THEN IF combo < Len(DdirCombos)
            THEN combo' = combo + 1 /\ pc' = pc
            ELSE combo' = 1 /\ pc' = "mangle"
       ELSE IF combo < Len(MangleCombos)
            THEN combo' = combo + 1 /\ pc' = pc
            ELSE combo' = combo /\ pc' = "report"
    /\ UNCHANGED <<platform, cpucount, active, phases, pool, ovars, jvars, args, test_env, TEST_LIST,
                   TEST_LIST_DDIR_FIXED, dirs, ran, fixtures, last, interrupted, exitcode>>

\* the exit status of a Python process that ends on an uncaught
\* KeyboardInterrupt, as its caller sees it: the process kills itself with
\* SIGINT (-2 in subprocess's numbering), on Windows it exits with
\* STATUS_CONTROL_C_EXIT (0xC000013A, here as a signed 32-bit number)
InterruptExit(os) == IF os = "windows" THEN -1073741510 ELSE -2

\* an interrupt arrives.  Inside the try block, between two cases or two
\* combinations, 'except KeyboardInterrupt: pass' takes main to the report
\* and what run_fio_tests has counted so far is not returned; so it does
\* after the additions of the last combination, while the loop is being
\* left.  Outside the try block nothing catches it: before the first loop,
\* with the artifact root made or not, and while the totals are printed and
\* sys.exit is called, the process ends on the exception.  The interrupts
\* that land inside a case, at the head of an iteration or between the
\* additions to total are KeyboardInterruptInCase, KeyboardInterruptInStart
\* and KeyboardInterruptInReturn.
KeyboardInterrupt ==
    /\ \/ /\ pc \in {"ddir", "mangle"}
          /\ pc' = "report"
          /\ UNCHANGED <<dirs, exitcode>>
       \/ /\ pc = "report"
          /\ ~interrupted
          /\ pc' = "report"
          /\ UNCHANGED <<dirs, exitcode>>
       \/ /\ pc = "report"
          /\ pc' = "crashed"
          /\ exitcode' = InterruptExit(platform)
          /\ UNCHANGED dirs
       \/ /\ pc = "start"
          /\ pc' = "crashed"
          /\ exitcode' = InterruptExit(platform)
          /\ \E made \in BOOLEAN :
                dirs' = IF made /\ artifact_root(args) \notin dirs
                        THEN dirs \cup {artifact_root(args)} ELSE dirs
    /\ interrupted' = TRUE
    /\ UNCHANGED <<platform, cpucount, active, phases, pool, ovars, jvars, args, combo, tnum, test_env,
                   TEST_LIST, TEST_LIST_DDIR_FIXED, total, tally, ran, fixtures, last>>

\* except KeyboardInterrupt: pass -- the interrupt is delivered while the
\* runner is inside a case and the runner lets it through: the case's
\* directory is made and fio is started, the exception unwinds from there
\* and the case is never judged.  A runner that catches the interrupt
\* itself judges the case, as in RunDdirCase and RunMangleCase.
KeyboardInterruptInCase ==
    /\ pc \in {"ddir", "mangle"}
    /\ LET list == IF pc = "ddir" THEN TEST_LIST ELSE TEST_LIST_DDIR_FIXED
       IN  /\ tnum \in 1..Len(list)
           /\ ~UserSkip(list[tnum], args)
           /\ ~ReqSkip(list[tnum], args, platform, cpucount)
           /\ dirs' = dirs \cup {TestDir(test_env, list[tnum].test_id, platform)}
           /\ last' = [matrix |-> pc,
                       ddir |-> IF pc = "ddir" THEN DdirCombos[combo][1] ELSE "",
                       mbs |-> IF pc = "ddir" THEN -1 ELSE MangleCombos[combo][1],
                       csum |-> IF pc = "ddir" THEN DdirCombos[combo][2]
                                ELSE MangleCombos[combo][2],
                       test_id |-> list[tnum].test_id, outcome |-> "interrupted",
                       directory |-> IF "directory" \in DOMAIN list[tnum].fio_opts
                                     THEN list[tnum].fio_opts["directory"] ELSE "",
                       report |-> "", jobs |-> <<>>]
    /\ pc' = "report"
    /\ interrupted' = TRUE
    /\ UNCHANGED <<platform, cpucount, active, phases, pool, ovars, jvars, args, combo, tnum, test_env,
                   TEST_LIST, TEST_LIST_DDIR_FIXED, total, tally, ran, fixtures, exitcode>>

\* except KeyboardInterrupt: pass -- the interrupt is delivered at the head
\* of an iteration of one of main's loops: after test_env['artifact_root']
\* is assigned and before os.mkdir has made the directory, or after
\* os.mkdir, before or inside the loop of verify_test or verify_test_csum,
\* with j tests adjusted and s statements of the loop body done on the next.
\* run_fio_tests is not reached.
KeyboardInterruptInStart ==
    /\ pc \in {"ddir", "mangle"}
    /\ tnum = 0
    /\ LET ddir == DdirCombos[combo][1]
           mbs  == MangleCombos[combo][1]
           csum == IF pc = "ddir" THEN DdirCombos[combo][2] ELSE MangleCombos[combo][2]
           path == IF pc = "ddir"
                   THEN Join(platform, artifact_root(args),
                             "ddir_" \o ddir \o "_csum_" \o csum)
                   ELSE Join(platform, artifact_root(args),
                             "mbs_" \o ToString(mbs) \o "_csum_" \o csum)
       IN  /\ test_env' = path
           /\ \E made \in BOOLEAN :
                 IF ~made
                 THEN UNCHANGED <<dirs, TEST_LIST, TEST_LIST_DDIR_FIXED>>
                 ELSE /\ path \notin dirs
                      /\ dirs' = dirs \cup {path}
                      /\ IF pc = "ddir"
                         THEN /\ \E j \in 0..(Len(TEST_LIST) - 1),
                                    s \in 0..(Len(verify_test_writes) - 1) :
                                    TEST_LIST' = verify_test_upto(TEST_LIST, path, ddir,
                                                                  csum, platform, j, s)
                              /\ UNCHANGED TEST_LIST_DDIR_FIXED
                         ELSE /\ \E j \in 0..(Len(TEST_LIST_DDIR_FIXED) - 1),
                                    s \in 0..(Len(verify_test_csum_writes) - 1) :
                                    TEST_LIST_DDIR_FIXED' =
                                        verify_test_csum_upto(TEST_LIST_DDIR_FIXED, mbs,
                                                              csum, j, s)
                              /\ UNCHANGED TEST_LIST
    /\ pc' = "report"
    /\ interrupted' = TRUE
    /\ UNCHANGED <<platform, cpucount, active, phases, pool, ovars, jvars, args, combo, tnum,
                   total, tally, ran, fixtures, last, exitcode>>

\* except KeyboardInterrupt: pass -- the interrupt is delivered after
\* run_fio_tests has returned, between the three additions to total or
\* right after them: the first, the first two, or all three are done
KeyboardInterruptInReturn ==
    /\ \/ pc = "ddir" /\ tnum = Len(TEST_LIST) + 1
       \/ pc = "mangle" /\ tnum = Len(TEST_LIST_DDIR_FIXED) + 1
    /\ \E done \in 1..3 :
          total' = [total EXCEPT !.passed = @ + tally.passed,
                                 !.failed = IF done >= 2 THEN @ + tally.failed ELSE @,
                                 !.skipped = IF done = 3 THEN @ + tally.skipped ELSE @]
    /\ pc' = "report"
    /\ interrupted' = TRUE
    /\ UNCHANGED <<platform, cpucount, active, phases, pool, ovars, jvars, args, combo, tnum,
                   test_env, TEST_LIST, TEST_LIST_DDIR_FIXED, tally, dirs, ran, fixtures,
                   last, exitcode>>

\* the totals are printed and sys.exit(total['failed']) ends the process
Report ==
    /\ pc = "report"
    /\ exitcode' = ExitStatus(platform, total.failed)
    /\ pc' = "exited"
    /\ UNCHANGED <<platform, cpucount, active, phases, pool, ovars, jvars, args, combo, tnum, test_env,
                   TEST_LIST, TEST_LIST_DDIR_FIXED, total, tally, dirs, ran, fixtures,
                   last, interrupted>>

Next ==
    \/ Startup
    \/ StartDdirCombo
    \/ RunDdirCase
    \/ StartMangleCombo
    \/ RunMangleCase
    \/ ReturnCombo
    \/ KeyboardInterrupt
    \/ KeyboardInterruptInCase
    \/ KeyboardInterruptInStart
    \/ KeyboardInterruptInReturn
    \/ Report

Spec == Init /\ [][Next]_vars

(***************************************************************************)
(* Properties of the fixture chaining and of main's loops (Spec).          *)
(***************************************************************************)

ReadClass == {"read", "randread"}

\* the write-class direction a read-class direction depends on
Counterpart(ddir) == IF ddir = "read" THEN "write" ELSE "randwrite"

\* the directory in which the case of (ddir, csum, test_id) runs fio
CaseDir(ddir, csum, test_id) ==
    TestDir(Join(platform, artifact_root(args), "ddir_" \o ddir \o "_csum_" \o csum),
            test_id, platform)

\* verify_test has adjusted TEST_LIST for the current combination
InDdirCombo == pc = "ddir" /\ tnum >= 1

\* C7: in a read (randread) combination every test of TEST_LIST is pointed at
\* the directory of the write (randwrite) case of the same test_id and the
\* same checksum of this run.
C7_ReadClassPointsAtCounterpart ==
    (InDdirCombo /\ DdirCombos[combo][1] \in ReadClass) =>
        \A k \in 1..Len(TEST_LIST) :
            /\ "directory" \in DOMAIN TEST_LIST[k].fio_opts
            /\ TEST_LIST[k].fio_opts["directory"] =
                  FioPath(platform, CaseDir(Counterpart(DdirCombos[combo][1]),
                                            DdirCombos[combo][2], TEST_LIST[k].test_id))

\* C8: a read (randread) combination is started only after the write
\* (randwrite) combination of the same checksum was started, and a read-class
\* case is processed only after that combination has returned.
C8_WriteClassFirst ==
    /\ \A q \in 1..Len(ran) :
          (ran[q].matrix = "ddir" /\ ran[q].ddir \in ReadClass) =>
              \E w \in 1..(q - 1) :
                  /\ ran[w].matrix = "ddir"
                  /\ ran[w].ddir = Counterpart(ran[q].ddir)
                  /\ ran[w].csum = ran[q].csum
    /\ (last.matrix = "ddir" /\ last.ddir \in ReadClass) =>
          \E w \in 1..(Len(ran) - 1) :
              /\ ran[w].matrix = "ddir"
              /\ ran[w].ddir = Counterpart(last.ddir)
              /\ ran[w].csum = last.csum

C8_Witness ==
    /\ last.matrix = "ddir"
    /\ last.ddir = "randread"
    /\ last.outcome # "skipped"
    /\ Len(csum_list(args)) > 1
    /\ last.csum = csum_list(args)[2]

\* the fixture a read-class case depends on: the directory of its counterpart
FixtureOf(case) == CaseDir(Counterpart(case.ddir), case.csum, case.test_id)

ReadClassCase(case) == case.matrix = "ddir" /\ case.ddir \in ReadClass

\* C9: a read-class case is counted failed unless the write-class
\* counterpart of the same test_id ran earlier in the run, completed (was
\* judged passed) and produced the artifacts the case is judged on: the
\* directory the case hands to fio is the one the counterpart ran in.
C9_FailedUnlessCounterpartCompleted ==
    ReadClassCase(last) =>
        \/ /\ FixtureOf(last) \in DOMAIN fixtures
           /\ fixtures[FixtureOf(last)] = "passed"
           /\ last.directory = FioPath(platform, FixtureOf(last))
        \/ last.outcome = "failed"

\* the combinations of both matrices in the order main is meant to run them
FullSchedule ==
    [k \in 1..Len(DdirCombos) |->
        [matrix |-> "ddir", ddir |-> DdirCombos[k][1], mbs |-> -1, csum |-> DdirCombos[k][2]]]
    \o
    [k \in 1..Len(MangleCombos) |->
        [matrix |-> "mangle", ddir |-> "", mbs |-> MangleCombos[k][1],
         csum |-> MangleCombos[k][2]]]

\* C10: a run that ends without an interrupt has run every combination of
\* the first matrix once, in order, and then every combination of the second.
C10_UninterruptedRunsEverything ==
    (pc \in {"exited", "crashed"} /\ ~interrupted) => ran = FullSchedule

(***************************************************************************)
(* Properties of the exit status, the interrupts and the skips (Spec).     *)
(***************************************************************************)

\* the process of main has ended
Ended == pc \in {"exited", "crashed"}

\* C11: when the harness has exited, its exit code is the number of failed
\* cases main has accumulated over the combinations that were run.
C11_ExitCodeIsFailedCount ==
    Ended => exitcode = total.failed

(***************************************************************************)
(* SpecExit: the end of main, for every count of failed cases a run over   *)
(* sixteen checksums can have accumulated when it reaches the report.      *)
(***************************************************************************)

\* --csum with the fifteen names of CSUM_LIST2 and one more, the
\* fault-injection tests skipped, the requirements not checked
WideArgs ==
    [NoArgs EXCEPT !.csum = CSUM_LIST2 \o <<"crc32">>,
                   !.skip = {1000, 1001, 1002, 1003}, !.skip_req = TRUE]

\* the tests of a list that the command line a does not skip
Selected(list, a) == { k \in 1..Len(list) : ~UserSkip(list[k], a) }

\* the number of cases of both matrices that are run, and that are skipped
RunCases(a) ==
    Len(DDIR_LIST) * Len(csum_list(a)) * Cardinality(Selected(TEST_LIST_0, a))
    + Len(mangle_bs) * Len(csum_list(a)) * Cardinality(Selected(TEST_LIST_DDIR_FIXED_0, a))

SkippedCases(a) ==
    Len(DDIR_LIST) * Len(csum_list(a)) * (Len(TEST_LIST_0) - Cardinality(Selected(TEST_LIST_0, a)))
    + Len(mangle_bs) * Len(csum_list(a))
        * (Len(TEST_LIST_DDIR_FIXED_0) - Cardinality(Selected(TEST_LIST_DDIR_FIXED_0, a)))

ExitInit ==
    /\ platform \in Platforms
    /\ cpucount = 4
    /\ active = {}
    /\ args = WideArgs
    /\ pc = "report"
    /\ combo = Len(MangleCombos)
    /\ tnum = 0
    /\ test_env = ""
    /\ TEST_LIST = TEST_LIST_0
    /\ TEST_LIST_DDIR_FIXED = TEST_LIST_DDIR_FIXED_0
    /\ \E f \in 0..RunCases(WideArgs) :
          total = [passed |-> RunCases(WideArgs) - f, failed |-> f,
                   skipped |-> SkippedCases(WideArgs)]
    /\ tally = ZeroTally
    /\ dirs = {}
    /\ ran = <<>>
    /\ fixtures = <<>>
    /\ last = NoCase
    /\ interrupted = FALSE
    /\ exitcode = -1
    /\ JudgeIdle
    /\ ToolsIdle

ExitNext == Report

SpecExit == ExitInit /\ [][ExitNext]_vars

\* C12: the exit status the caller sees is 0 exactly when no case failed.
C12_StatusZeroIffNoFailure ==
    pc = "exited" => (exitcode = 0 <=> total.failed = 0)

(***************************************************************************)
(* Properties of the operator interrupt (Spec).                            *)
(***************************************************************************)

\* C13: an interrupt takes effect at a case boundary -- the case processed
\* last was judged and counted, none was cut short in the middle of its
\* invocation -- and main goes straight to the report.
C13_InterruptAtCaseBoundary ==
    interrupted =>
        /\ last.outcome # "interrupted"
        /\ pc \in {"report", "exited"}

\* the counts of every case that was judged: what main has added to total
\* and what the runner has counted in the combination under way
Completed == AddTally(total, tally)

\* C14: after an interrupt the reported totals and the exit code include
\* every case that was judged before the interrupt.
C14_InterruptKeepsCompletedCases ==
    (interrupted /\ pc = "exited") =>
        /\ total = Completed
        /\ exitcode = ExitStatus(platform, Completed.failed)

\* C15: nothing but an operator interrupt ends the matrices early: whatever
\* happens to a case or to its artifact directory, main goes on to the next
\* case and to the report.
C15_OnlyInterruptEndsEarly ==
    pc = "crashed" => interrupted

(***************************************************************************)
(* copy_test.py: main's loop over test_list and FioCopyTest.run_fio.       *)
(* fio is the environment: whether it starts, how and when it ends, and    *)
(* what it leaves in its output file.                                      *)
(***************************************************************************)

\* main's test_list: the keys the harness itself reads
test_list ==
    <<
        [test_id |-> 1, output_format |-> "json", opts |-> <<>>,
         test_obj |-> "TestBasic"],
        [test_id |-> 2, output_format |-> "json", opts |-> <<>>,
         test_obj |-> "TestBasic"],
        [test_id |-> 3, output_format |-> "json", opts |-> <<>>,
         test_obj |-> "TestBasic"],
        [test_id |-> 4, output_format |-> "json", opts |-> <<>>,
         test_obj |-> "TestBasic"],
        [test_id |-> 5, output_format |-> "json", opts |-> <<>>,
         test_obj |-> "Test005"],
        [test_id |-> 6, output_format |-> "json", opts |-> <<>>,
         test_obj |-> "Test005"],
        [test_id |-> 7, output_format |-> "normal", opts |-> ("returncode" :> 1),
         test_obj |-> "TestFail"],
        [test_id |-> 8, output_format |-> "json", opts |-> <<>>,
         test_obj |-> "TestTimeBased"],
        [test_id |-> 9, output_format |-> "json", opts |-> <<>>,
         test_obj |-> "TestRate"],
        [test_id |-> 10, output_format |-> "json", opts |-> <<>>,
         test_obj |-> "TestRate"],
        [test_id |-> 11, output_format |-> "json", opts |-> <<>>,
         test_obj |-> "TestRate"],
        [test_id |-> 12, output_format |-> "json", opts |-> <<>>,
         test_obj |-> "TestRate"],
        [test_id |-> 13, output_format |-> "normal", opts |-> ("returncode" :> 1),
         test_obj |-> "TestFail"],
        [test_id |-> 14, output_format |-> "normal", opts |-> ("returncode" :> 1),
         test_obj |-> "TestFail"],
        [test_id |-> 15, output_format |-> "normal", opts |-> ("returncode" :> 1),
         test_obj |-> "TestFail"],
        [test_id |-> 16, output_format |-> "normal", opts |-> ("returncode" :> 1),
         test_obj |-> "TestFail"],
        [test_id |-> 17, output_format |-> "json",
         opts |-> ("test_allowed_bs" :> <<1024, 2048, 3072, 4096, 5120, 6144, 7168, 8192>>),
         test_obj |-> "TestBssplit"],
        [test_id |-> 18, output_format |-> "json",
         opts |-> ("test_allowed_bs" :> <<1024, 2048, 3072, 4096, 5120, 6144, 7168, 8192>>),
         test_obj |-> "TestBssplit"],
        [test_id |-> 19, output_format |-> "json",
         opts |-> ("test_allowed_bs" :> <<2048, 4096>>),
         test_obj |-> "TestBssplit"],
        [test_id |-> 20, output_format |-> "json",
         opts |-> ("test_allowed_bs" :> <<2048, 4096>>),
         test_obj |-> "TestBssplit"],
        [test_id |-> 21, output_format |-> "json",
         opts |-> ("test_allowed_bs" :> <<2048, 4096>>),
         test_obj |-> "TestBssplit"],
        [test_id |-> 22, output_format |-> "json",
         opts |-> ("test_allowed_bs" :> <<2048, 4096>>),
         test_obj |-> "TestBssplit"],
        [test_id |-> 23, output_format |-> "json",
         opts |-> ("test_allowed_bs" :> <<2048, 4096>>),
         test_obj |-> "TestBssplit"],
        [test_id |-> 24, output_format |-> "json",
         opts |-> ("test_allowed_bs" :> <<2048, 4096>>),
         test_obj |-> "TestBssplit"],
        [test_id |-> 25, output_format |-> "json",
         opts |-> ("test_allowed_bs" :> <<2048, 4096>>),
         test_obj |-> "TestBssplit"]
    >>

CopyNoArgs == [artifact_root |-> "", skip |-> {}, run_only |-> {}]

copy_artifact_root(a) ==
    IF a.artifact_root # "" THEN a.artifact_root ELSE "copy-test-20240101-000000"

\* FioCopyTest.__init__: self.test_dir
CopyTestDir(root, test_id, os) ==
    Abspath(os, Join(os, root, ZeroPad(ToString(test_id), 3)))

\* the variant of Returncode that expects 0 of every test
ReturncodeAlwaysZero(test) == 0

\* FioCopyTest.__init__: self.returncode
Returncode(test) ==
    IF "returncode" \in DOMAIN test.opts THEN test.opts["returncode"] ELSE 0

\* the variant of CopyUserSkip that does not look at the run-only list
CopyUserSkipNoRunOnly(test, a) == a.skip # {} /\ test.test_id \in a.skip

\* main: the test is skipped on the user's request
CopyUserSkip(test, a) ==
    \/ (a.skip # {} /\ test.test_id \in a.skip)
    \/ (a.run_only # {} /\ test.test_id \notin a.run_only)

\* the signal proc.terminate() sends; a process it kills has returncode -SIGTERM
SIGTERM == 15

\* how the wait for the subprocess ends: it exits within the timeout; the
\* timeout expires and the terminated process ends with returncode rc; or
\* another exception is raised inside the try block, with the process still
\* running (ended by the handler with rc) or already gone with rc
ProcEvents ==
    { [kind |-> "exit", running |-> FALSE, rc |-> rc] : rc \in {0, 1} }
    \cup { [kind |-> "timeout", running |-> TRUE, rc |-> rc] : rc \in {-SIGTERM, 0, 1} }
    \cup { [kind |-> "error", running |-> r, rc |-> rc] :
              r \in BOOLEAN, rc \in {-SIGTERM, 0, 1} }

\* what is found in fio's output file: a fio report, JSON that is not a
\* report, text that does not decode, JSON that json.loads refuses with an
\* exception that is no JSONDecodeError (a number of more than
\* int_max_str_digits digits, nesting deeper than the recursion limit
\* allows), or no file at all
OutputFiles == {"valid", "nojobs", "garbage", "refused", "absent"}

\* get_json: "True", "False", or "raised" when open() finds no file or
\* json.loads raises what get_json does not catch
get_json(output) ==
    CASE output = "absent"  -> "raised"
      [] output = "refused" -> "raised"
      [] output = "garbage" -> "False"
      [] OTHER              -> "True"

\* the truth value of proc.poll() for a process that has ended
PollTruthy(rc) == rc # 0

\* the variant of the handlers that leaves the subprocess alone
HandlerLeavesRunning(act, id, ev) == IF ev.running THEN act ELSE act \ {id}

\* the subprocesses still running when run_fio is left: communicate() has
\* returned, or the handler has called terminate() and communicate()
AfterHandler(act, id, ev) == act \ {id}

\* run_fio from the wait on: "True", "False", or "raised" when an exception
\* leaves run_fio
run_fio(test, ev, output) ==
    CASE ev.kind = "exit" ->
            IF ev.rc # Returncode(test) THEN "False"
            ELSE IF ~Contains("json", test.output_format) THEN "True"
            ELSE get_json(output)
      [] ev.kind = "timeout" ->
            IF PollTruthy(ev.rc) THEN "False" ELSE "raised"
      [] ev.kind = "error" -> "False"

\* TestBssplit.check_iolog: int(), the lines of an iolog and one iteration
\* of the loop over them. The decimal digits int() accepts among the
\* characters a string of the model can hold (code points below U+0100)
Digits == {"0", "1", "2", "3", "4", "5", "6", "7", "8", "9"}

\* the white space int() skips at both ends of its text: the six characters
\* of Whitespace, next line (U+0085) and no-break space (U+00A0)
IntWhitespace == Whitespace \cup {"", " "}

\* the numeral of int(s): s without the white space around it and without
\* its sign
Numeral(s) ==
    LET t == StripChars(s, IntWhitespace)
    IN  IF t # "" /\ SubSeq(t, 1, 1) \in {"+", "-"} THEN SubSeq(t, 2, Len(t)) ELSE t

\* sys.int_max_str_digits: the most digits int() and json.loads convert to
\* an int; a numeral of more digits is a ValueError
int_max_str_digits == 4300

\* int(s) returns a value: the numeral is made of decimal digits, at most
\* int_max_str_digits of them, with single underscores allowed between two
\* digits; otherwise int raises ValueError
IsInt(s) ==
    LET n == Numeral(s)
    IN  /\ n # ""
        /\ Cardinality({k \in 1..Len(n) : SubSeq(n, k, k) \in Digits}) <= int_max_str_digits
        /\ \A k \in 1..Len(n) : SubSeq(n, k, k) \in Digits \cup {"_"}
        /\ SubSeq(n, 1, 1) # "_"
        /\ SubSeq(n, Len(n), Len(n)) # "_"
        /\ \A k \in 1..(Len(n) - 1) : SubSeq(n, k, k + 1) # "__"

RECURSIVE DecimalValue(_, _)
DecimalValue(s, acc) ==
    IF s = "" THEN acc
    ELSE LET c == SubSeq(s, 1, 1)
             d == CASE c = "0" -> 0 [] c = "1" -> 1 [] c = "2" -> 2 [] c = "3" -> 3
                    [] c = "4" -> 4 [] c = "5" -> 5 [] c = "6" -> 6 [] c = "7" -> 7
                    [] c = "8" -> 8 [] c = "9" -> 9 [] OTHER -> -1
         IN  IF d = -1 THEN DecimalValue(SubSeq(s, 2, Len(s)), acc)
             ELSE DecimalValue(SubSeq(s, 2, Len(s)), 10 * acc + d)

\* int(s) where IsInt(s)
int(s) ==
    LET t == StripChars(s, IntWhitespace)
    IN  IF SubSeq(t, 1, 1) = "-" THEN 0 - DecimalValue(Numeral(s), 0)
        ELSE DecimalValue(Numeral(s), 0)

\* the longest iolog of the model, in lines
MaxIologLen == 3

\* the lines an iolog is made of: what each says, and its text; the last
\* two are a copy entry cut short before its size and an empty line
IologEntries ==
    { [action |-> "version", size |-> 0, text |-> "fio version 3 iolog\n"],
      [action |-> "open",    size |-> 0, text |-> "0 /t/copy.0.0 open\n"],
      [action |-> "copy",    size |-> 2048, text |-> "5 /t/copy.0.0 copy 0 2048\n"],
      [action |-> "copy",    size |-> 4096, text |-> "7 /t/copy.0.0 copy 2048 4096\n"],
      [action |-> "copy",    size |-> 8192, text |-> "9 /t/copy.0.0 copy 6144 8192\n"],
      [action |-> "write",   size |-> 8192, text |-> "9 /t/copy.0.0 write 0 8192\n"],
      [action |-> "copy",    size |-> -1, text |-> "9 /t/copy.0.0 copy 0\n"],
      [action |-> "blank",   size |-> 0, text |-> "\n"] }

IologTexts == {e.text : e \in IologEntries}

\* the tests of test_list that are TestBssplit objects
BssplitTests == { k \in 1..Len(test_list) : test_list[k].test_obj = "TestBssplit" }

\* self.test_opts['test_allowed_bs']
test_allowed_bs(test) ==
    { test.opts["test_allowed_bs"][i] : i \in 1..Len(test.opts["test_allowed_bs"]) }

\* the variant of check_iolog_line that assigns retval where the code
\* assigns retvak
check_iolog_line_AssignsRetval(b, line) ==
    LET tokens == Split(line) IN
       IF Len(tokens) < 3 THEN [b EXCEPT !.pc = "raised"]
       ELSE IF tokens[3] # "copy" THEN [b EXCEPT !.pos = @ + 1]
       ELSE IF Len(tokens) < 5 \/ ~IsInt(tokens[5]) THEN [b EXCEPT !.pc = "raised"]
       ELSE IF int(tokens[5]) \notin test_allowed_bs(test_list[b.test])
            THEN [b EXCEPT !.retval = FALSE, !.pc = "return"]
            ELSE [b EXCEPT !.pos = @ + 1]

\* one iteration of 'for line in log_file': tokens[2] and tokens[4] of the
\* code are tokens[3] and tokens[5] here
check_iolog_line(b, line) ==
    LET tokens == Split(line) IN
       IF Len(tokens) < 3 THEN [b EXCEPT !.pc = "raised"]
       ELSE IF tokens[3] # "copy" THEN [b EXCEPT !.pos = @ + 1]
       ELSE IF Len(tokens) < 5 \/ ~IsInt(tokens[5]) THEN [b EXCEPT !.pc = "raised"]
       ELSE IF int(tokens[5]) \notin test_allowed_bs(test_list[b.test])
            THEN [b EXCEPT !.retvak = "False", !.pc = "return"]
            ELSE [b EXCEPT !.pos = @ + 1]

\* check_iolog() from the loop's current line on: the object when the loop
\* is left, by its end, by the break or by an exception
RECURSIVE check_iolog_loop(_)
check_iolog_loop(b) ==
    IF b.pc = "loop" /\ b.pos <= Len(b.lines)
    THEN check_iolog_loop(check_iolog_line(b, b.lines[b.pos]))
    ELSE b

\* what is found at iolog.log: the lines of the file, or no file
NoIolog == [present |-> FALSE, lines |-> <<>>]

\* TestBssplit.check_iolog(): "True", "False", or "raised" when open() finds
\* no file or a line has no tokens[2] or tokens[4] or a size int() rejects
check_iolog(test, iolog) ==
    IF ~iolog.present THEN "raised"
    ELSE LET b == check_iolog_loop(
                     [test |-> CHOOSE k \in 1..Len(test_list) :
                                  test_list[k].test_id = test.test_id,
                      lines |-> iolog.lines, pos |-> 1, retval |-> TRUE,
                      retvak |-> "unbound", pc |-> "loop"])
         IN  IF b.pc = "raised" THEN "raised"
             ELSE IF b.retval THEN "True" ELSE "False"

\* test_obj.check(): TestFail has nothing to check; every other class
\* starts with check_ddirs(), which reads self.json_data['jobs'][0] (json_data
\* is None unless get_json decoded a report), and TestBssplit calls
\* check_iolog() before it looks at the copy data.  verdict is what the
\* comparisons of the file's halves and of the report's numbers come to,
\* logged is what check_iolog() returns ("raised" when an exception leaves it).
check(test, output, verdict, logged) ==
    IF test.test_obj = "TestFail" THEN "True"
    ELSE IF output # "valid" THEN "raised"
    ELSE IF test.test_obj = "TestBssplit"
         THEN IF logged = "raised" THEN "raised"
              ELSE IF verdict /\ logged = "True" THEN "True" ELSE "False"
    ELSE IF verdict THEN "True" ELSE "False"

\* main's treatment of one test that is not skipped, from the wait on:
\* "passed", "failed", or "raised"
CopyOutcome(test, ev, output, verdict, logged) ==
    LET status == run_fio(test, ev, output)
    IN  IF status = "raised" THEN "raised"
        ELSE IF status = "False" THEN "failed"
        ELSE LET chk == check(test, output, verdict, logged)
             IN  IF chk = "raised" THEN "raised"
                 ELSE IF chk = "True" THEN "passed" ELSE "failed"

\* precon(): every class returns True (TestBasic after writing the test file)
precon(test) == "True"

\* the variant of main_steps that calls check() whatever run_fio returned
main_steps_AlwaysChecks(test, ran_fio, ev, output, verdict, logged) ==
    LET p == <<[step |-> "precon", status |-> precon(test)]>>
        r == <<[step |-> "run_fio", status |-> ran_fio]>>
    IN  IF ran_fio = "raised" THEN p \o r
        ELSE p \o r \o <<[step |-> "check",
                            status |-> check(test, output, verdict, logged)]>>

\* main's chain of steps for one test that is not skipped, with the status
\* each returned ("raised" for the step an exception left): status is
\* precon()'s, then run_fio()'s if that was true, then check()'s if that was
\* true.  ran_fio is what run_fio returned.
main_steps(test, ran_fio, ev, output, verdict, logged) ==
    LET p == <<[step |-> "precon", status |-> precon(test)]>>
        r == <<[step |-> "run_fio", status |-> ran_fio]>>
    IN  IF precon(test) # "True" THEN p
        ELSE IF ran_fio # "True" THEN p \o r
        ELSE p \o r \o <<[step |-> "check",
                            status |-> check(test, output, verdict, logged)]>>

\* the command lines and hosts copy_test.py is started with
CopyInvocations ==
    { [os |-> "linux",   args |-> CopyNoArgs],
      [os |-> "linux",   args |-> [CopyNoArgs EXCEPT !.run_only = {1, 7}]],
      [os |-> "darwin",  args |-> [CopyNoArgs EXCEPT !.artifact_root = "art",
                                                     !.skip = {1, 2, 3}]],
      [os |-> "windows", args |-> [CopyNoArgs EXCEPT !.skip = {2},
                                                     !.run_only = {1, 2, 7}]] }

\* what fio leaves at iolog.log: a TestBssplit job writes an iolog of one
\* line, a copy entry or an empty line, or fails to; the other jobs write
\* none
CopyIologs(test) ==
    IF test.test_obj = "TestBssplit"
    THEN {NoIolog} \cup { [present |-> TRUE, lines |-> <<e.text>>] :
                             e \in { x \in IologEntries : x.action \in {"copy", "blank"} } }
    ELSE {NoIolog}

CopyCase(test) ==
    [matrix |-> "copy", test_id |-> test.test_id, outcome |-> "skipped", event |-> "",
     rc |-> 0, output |-> "", iolog |-> NoIolog, checked |-> FALSE, steps |-> <<>>]

CopyInit ==
    /\ \E inv \in CopyInvocations : platform = inv.os /\ args = inv.args
    /\ cpucount = 4
    /\ active = {}
    /\ pc = "cstart"
    /\ combo = 0
    /\ tnum = 0
    /\ test_env = ""
    /\ TEST_LIST = TEST_LIST_0
    /\ TEST_LIST_DDIR_FIXED = TEST_LIST_DDIR_FIXED_0
    /\ total = ZeroTally
    /\ tally = ZeroTally
    /\ dirs = {}
    /\ ran = <<>>
    /\ fixtures = <<>>
    /\ last = NoCase
    /\ interrupted = FALSE
    /\ exitcode = -1
    /\ JudgeIdle
    /\ ToolsIdle

\* main up to the loop: the artifact root is made, the counters are zero
CopyStartup ==
    /\ pc = "cstart"
    /\ dirs' = dirs \cup {copy_artifact_root(args)}
    /\ test_env' = copy_artifact_root(args)
    /\ total' = ZeroTally
    /\ tnum' = 1
    /\ pc' = "cloop"
    /\ UNCHANGED <<platform, cpucount, active, phases, pool, ovars, jvars, args, combo, TEST_LIST,
                   TEST_LIST_DDIR_FIXED, tally, ran, fixtures, last, interrupted, exitcode>>

\* one iteration of main's loop for a test the user asked to skip
CopySkipCase ==
    /\ pc = "cloop"
    /\ tnum \in 1..Len(test_list)
    /\ CopyUserSkip(test_list[tnum], args)
    /\ total' = Count(total, "skipped")
    /\ last' = CopyCase(test_list[tnum])
    /\ tnum' = tnum + 1
    /\ UNCHANGED <<platform, cpucount, active, phases, pool, ovars, jvars, args, pc, combo, test_env, TEST_LIST,
                   TEST_LIST_DDIR_FIXED, tally, dirs, ran, fixtures, interrupted, exitcode>>

\* one iteration for a test that is run, up to the wait for fio: the test
\* object is made (and its directory, unless it exists), precon() returns
\* True, run_fio calls Popen.  When Popen raises, no process exists, the
\* handler sets passed = False and the test is counted failed.
CopyStartCase ==
    /\ pc = "cloop"
    /\ tnum \in 1..Len(test_list)
    /\ ~CopyUserSkip(test_list[tnum], args)
    /\ dirs' = dirs \cup {CopyTestDir(test_env, test_list[tnum].test_id, platform)}
    /\ \E started \in BOOLEAN :
          IF started
          THEN /\ active' = active \cup {test_list[tnum].test_id}
               /\ pc' = "cwait"
               /\ UNCHANGED <<total, last, tnum>>
          ELSE /\ total' = Count(total, "failed")
               /\ last' = [CopyCase(test_list[tnum]) EXCEPT
                               !.outcome = "failed", !.event = "nostart",
                               !.steps = main_steps(test_list[tnum], "False",
                                                    [kind |-> "error", running |-> FALSE,
                                                     rc |-> 0], "absent", FALSE, "raised")]
               /\ tnum' = tnum + 1
               /\ UNCHANGED <<active, pc>>
    /\ UNCHANGED <<platform, cpucount, phases, pool, ovars, jvars, args, combo, test_env, TEST_LIST,
                   TEST_LIST_DDIR_FIXED, tally, ran, fixtures, interrupted, exitcode>>

\* the rest of the iteration: the wait ends, run_fio returns or raises,
\* check() is called when run_fio returned True, the test is counted.  An
\* exception that leaves run_fio or check() is caught nowhere in main.
\* iolog.log is read by check() alone: it is drawn where check() is called.
CopyFinishCase ==
    /\ pc = "cwait"
    /\ \E ev \in ProcEvents, output \in OutputFiles, verdict \in BOOLEAN :
       \E iolog \in IF run_fio(test_list[tnum], ev, output) = "True"
                    THEN CopyIologs(test_list[tnum]) ELSE {NoIolog} :
       \E logged \in {check_iolog(test_list[tnum], iolog)} :
          LET test    == test_list[tnum]
              outcome == CopyOutcome(test, ev, output, verdict, logged)
              case    == [CopyCase(test) EXCEPT
                             !.outcome = outcome, !.event = ev.kind, !.rc = ev.rc,
                             !.output = output, !.iolog = iolog,
                             !.checked = run_fio(test, ev, output) = "True",
                             !.steps = main_steps(test, run_fio(test, ev, output), ev,
                                                  output, verdict, logged)]
          IN  /\ active' = AfterHandler(active, test.test_id, ev)
              /\ last' = case
              /\ IF outcome = "raised"
                 THEN /\ pc' = "crashed"
                      /\ exitcode' = UncaughtExit
                      /\ UNCHANGED <<total, tnum>>
                 ELSE /\ total' = Count(total, outcome)
                      /\ tnum' = tnum + 1
                      /\ pc' = "cloop"
                      /\ UNCHANGED exitcode
    /\ UNCHANGED <<platform, cpucount, phases, pool, ovars, jvars, args, combo, test_env, TEST_LIST,
                   TEST_LIST_DDIR_FIXED, tally, dirs, ran, fixtures, interrupted>>

\* the loop is over: the counts are printed and sys.exit(failed) ends the
\* process
CopyReport ==
    /\ pc = "cloop"
    /\ tnum = Len(test_list) + 1
    /\ exitcode' = ExitStatus(platform, total.failed)
    /\ pc' = "exited"
    /\ UNCHANGED <<platform, cpucount, active, phases, pool, ovars, jvars, args, combo, tnum, test_env,
                   TEST_LIST, TEST_LIST_DDIR_FIXED, total, tally, dirs, ran, fixtures,
                   last, interrupted>>

CopyNext ==
    \/ CopyStartup
    \/ CopySkipCase
    \/ CopyStartCase
    \/ CopyFinishCase
    \/ CopyReport

SpecCopy == CopyInit /\ [][CopyNext]_vars

(***************************************************************************)
(* Properties of copy_test.py (SpecCopy).                                  *)
(***************************************************************************)

CopyCaseDone == last.matrix = "copy"

\* the entry of test_list with the given test_id
CopyTestOf(id) == CHOOSE t \in { test_list[k] : k \in 1..Len(test_list) } : t.test_id = id

\* C16: a case that asks for a JSON report and whose report is absent or
\* does not decode is counted failed, and check() is not called for it.
C16_UnreadableReportFailsCase ==
    (/\ CopyCaseDone
     /\ last.event = "exit"
     /\ last.output \in {"absent", "garbage"}
     /\ Contains("json", CopyTestOf(last.test_id).output_format))
    => (last.outcome = "failed" /\ ~last.checked)

\* C17: a case whose invocation runs into the timeout has its subprocess
\* terminated, is counted failed, and the loop goes on, whatever returncode
\* the terminated subprocess ends with.
C17_TimeoutFailsCaseAndContinues ==
    (CopyCaseDone /\ last.event = "timeout") =>
        /\ last.test_id \notin active
        /\ last.outcome = "failed"
        /\ pc # "crashed"

\* C18: at most one subprocess started by the harness is running, and none
\* is running when the loop turns to the next test.
C18_OneSubprocessAtATime ==
    /\ Cardinality(active) <= 1
    /\ pc = "cloop" => active = {}
    /\ pc = "cwait" => active = {test_list[tnum].test_id}

\* a second test is waiting for its subprocess after the first one's was
\* killed on timeout
C18_Witness ==
    /\ pc = "cwait"
    /\ CopyCaseDone
    /\ last.event = "timeout"
    /\ last.outcome = "failed"
    /\ last.test_id # test_list[tnum].test_id
    /\ active = {test_list[tnum].test_id}

\* C20: each iteration of the loop skips its test exactly when the test id
\* is in the skip list, or a run-only list is given and the id is not in it.
\* A skipped test adds one to 'skipped' and to nothing else, no test
\* directory is made and no subprocess started for it; every other test is
\* set up and run_fio is called for it.
C20_SkippedExactlyOnRequest ==
    [][ (pc = "cloop" /\ tnum \in 1..Len(test_list)) =>
          LET test == test_list[tnum]
              req  == \/ (args.skip # {} /\ test.test_id \in args.skip)
                      \/ (args.run_only # {} /\ test.test_id \notin args.run_only)
          IN  IF req
              THEN /\ total' = [total EXCEPT !.skipped = @ + 1]
                   /\ last'.outcome = "skipped"
                   /\ UNCHANGED <<active, dirs, pc>>
              ELSE /\ total'.skipped = total.skipped
                   /\ CopyTestDir(test_env, test.test_id, platform) \in dirs'
                   /\ \/ pc' = "cwait" /\ active' = {test.test_id}
                      \/ last'.test_id = test.test_id /\ last'.event = "nostart"
      ]_vars

\* with a skip list and a run-only list given, a test named in neither has
\* been skipped after a test named in the run-only list has been run
C20_Witness ==
    /\ CopyCaseDone
    /\ args.skip # {}
    /\ args.run_only # {}
    /\ last.test_id \notin args.skip
    /\ last.test_id \notin args.run_only
    /\ last.outcome = "skipped"
    /\ total.skipped >= 2
    /\ total.passed + total.failed >= 1

(***************************************************************************)
(* Properties of the requirement checks (Spec).                            *)
(***************************************************************************)

\* the user asked to skip the test with this id
SkipRequested(id) ==
    \/ (args.skip # {} /\ id \in args.skip)
    \/ (args.run_only # {} /\ id \notin args.run_only)

\* C19: a case of test 5, 6 or 7 on a host with fewer than 4 CPUs or on
\* macOS is counted skipped and fio is not run for it (its directory is
\* never made); with --skip-req it is run unless the user asked to skip it;
\* and no other case is skipped unless the user asked for it.
C19_UnmetRequirementSkips ==
    (last.matrix = "ddir") =>
        LET unmet == last.test_id \in {5, 6, 7} /\ (cpucount < 4 \/ platform = "darwin")
            dir   == CaseDir(last.ddir, last.csum, last.test_id)
        IN  /\ (unmet /\ ~args.skip_req) =>
                  (last.outcome = "skipped" /\ dir \notin dirs)
            /\ (unmet /\ args.skip_req /\ ~SkipRequested(last.test_id)) =>
                  (last.outcome # "skipped" /\ dir \in dirs)
            /\ (~unmet /\ ~SkipRequested(last.test_id)) =>
                  (last.outcome # "skipped" /\ dir \in dirs)

\* test 6 was selected on a Linux host with two CPUs and has been skipped
C19_Witness ==
    /\ last.matrix = "ddir"
    /\ last.test_id = 6
    /\ 6 \in args.run_only
    /\ platform = "linux"
    /\ cpucount = 2
    /\ ~args.skip_req
    /\ last.outcome = "skipped"
    /\ total.skipped > 0

(***************************************************************************)
(* The module-level test lists across iterations.                          *)
(***************************************************************************)

\* the entries of a test that an iteration or the startup writes
CoordinateOpts == {"rw", "verify", "verify_pattern", "directory", "mangle_bs", "ioengine"}

\* list differs from list0 in the coordinate-dependent entries at most
SameButCoordinate(list, list0) ==
    /\ Len(list) = Len(list0)
    /\ \A k \in 1..Len(list0) :
          /\ list[k].test_id = list0[k].test_id
          /\ list[k].test_class = list0[k].test_class
          /\ list[k].requirements = list0[k].requirements
          /\ \A o \in ((DOMAIN list[k].fio_opts) \cup (DOMAIN list0[k].fio_opts))
                          \ CoordinateOpts :
                /\ o \in DOMAIN list[k].fio_opts
                /\ o \in DOMAIN list0[k].fio_opts
                /\ list[k].fio_opts[o] = list0[k].fio_opts[o]

\* C21 as stated: the templates TEST_LIST and TEST_LIST_DDIR_FIXED are never
\* written; after any number of iterations each equals its initial value.
C21_TemplatesNeverMutated ==
    /\ DOMAIN TEST_LIST = DOMAIN TEST_LIST_0
    /\ \A k \in DOMAIN TEST_LIST_0 :
          /\ DOMAIN TEST_LIST[k].fio_opts = DOMAIN TEST_LIST_0[k].fio_opts
          /\ TEST_LIST[k] = TEST_LIST_0[k]
    /\ DOMAIN TEST_LIST_DDIR_FIXED = DOMAIN TEST_LIST_DDIR_FIXED_0
    /\ \A k \in DOMAIN TEST_LIST_DDIR_FIXED_0 :
          /\ DOMAIN TEST_LIST_DDIR_FIXED[k].fio_opts
                = DOMAIN TEST_LIST_DDIR_FIXED_0[k].fio_opts
          /\ TEST_LIST_DDIR_FIXED[k] = TEST_LIST_DDIR_FIXED_0[k]

\* C21 amended: the lists are adjusted in place, and after any number of
\* iterations they differ from their initial value in the coordinate-
\* dependent entries only (rw, verify, verify_pattern, directory, mangle_bs,
\* ioengine, force_skip, and success of the fault-injection tests): test
\* ids, classes, requirements and all other options are as at the start,
\* and the direction-sensitive tests never get a success criterion.
C21_OnlyCoordinateEntriesWritten ==
    /\ SameButCoordinate(TEST_LIST, TEST_LIST_0)
    /\ SameButCoordinate(TEST_LIST_DDIR_FIXED, TEST_LIST_DDIR_FIXED_0)
    /\ \A k \in 1..Len(TEST_LIST) : TEST_LIST[k].success = "unset"

\* the second combination of the first matrix is running on lists the first
\* combination has written to
C21_Witness ==
    /\ pc = "ddir"
    /\ Len(ran) >= 2
    /\ tnum >= 2
    /\ TEST_LIST[1].fio_opts["rw"] = "readwrite"
    /\ "rw" \notin DOMAIN TEST_LIST_0[1].fio_opts

\* verify_test_csum has adjusted TEST_LIST_DDIR_FIXED for the current combination
InMangleCombo == pc = "mangle" /\ tnum >= 1

\* C29: in every iteration each case carries verify_pattern exactly when the
\* current checksum is 'pattern' and a fixture directory exactly when the
\* current direction is read or randread, and its verify (and, in the first
\* matrix, rw) option is the current coordinate's, whatever the earlier
\* iterations set; a fault-injection case keeps the rw of its definition and
\* never has a directory.
C29_NoLeakBetweenIterations ==
    /\ InDdirCombo =>
          \A k \in 1..Len(TEST_LIST) :
              LET o == TEST_LIST[k].fio_opts
              IN  /\ ("verify_pattern" \in DOMAIN o) <=> (DdirCombos[combo][2] = "pattern")
                  /\ ("directory" \in DOMAIN o)
                        <=> (DdirCombos[combo][1] \in {"read", "randread"})
                  /\ o["rw"] = DdirCombos[combo][1]
                  /\ o["verify"] = DdirCombos[combo][2]
    /\ InMangleCombo =>
          \A k \in 1..Len(TEST_LIST_DDIR_FIXED) :
              LET o == TEST_LIST_DDIR_FIXED[k].fio_opts
              IN  /\ ("verify_pattern" \in DOMAIN o) <=> (MangleCombos[combo][2] = "pattern")
                  /\ "directory" \notin DOMAIN o
                  /\ o["rw"] = TEST_LIST_DDIR_FIXED_0[k].fio_opts["rw"]
                  /\ o["verify"] = MangleCombos[combo][2]

\* a combination without 'pattern' and without a read direction runs right
\* after one that set verify_pattern, in each matrix
C29_Witness ==
    /\ InMangleCombo
    /\ Len(ran) >= 2
    /\ ran[Len(ran) - 1].csum = "pattern"
    /\ ran[Len(ran)].csum = "null"
    /\ \E j \in 1..(Len(ran) - 1) :
          /\ ran[j].matrix = "ddir" /\ ran[j].ddir = "read" /\ ran[j].csum = "pattern"
          /\ ran[j + 1].matrix = "ddir" /\ ran[j + 1].ddir = "randwrite"
    /\ "verify_pattern" \notin DOMAIN TEST_LIST_DDIR_FIXED[1].fio_opts

(***************************************************************************)
(* VerifyFailureTest.setup: the argument vector of a fault-injection case. *)
(***************************************************************************)

\* the list as Python reads it: 'cpus_allowed' 'verify_backlog' has no comma
\* between the two literals, which makes them one string
VERIFY_OPT_LIST ==
    <<"direct", "iodepth", "filesize", "bs", "time_based", "runtime", "io_size", "offset",
      "number_ios", "output-format", "directory", "norandommap", "numjobs", "nrfiles",
      "openfiles", "cpus_allowedverify_backlog", "verify_backlog_batch", "verify_interval",
      "verify_offset", "verify_async", "verify_async_cpus", "verify_pattern">>

\* the options the test lists give integer values
IntOpts ==
    {"direct", "iodepth", "bs", "norandommap", "time_based", "runtime", "verify_backlog",
     "verify_backlog_batch", "verify_interval", "verify_offset", "verify_async", "nrfiles",
     "openfiles", "numjobs", "mangle_bs"}

\* f"{opt_list[opt]}": an integer in decimal, a string as it is
OptStr(opt_list, opt) ==
    IF opt \in IntOpts THEN ToString(opt_list[opt]) ELSE opt_list[opt]

\* add_verify_opts: --opt=value for every name of adds the dictionary has
RECURSIVE add_verify_opts(_, _)
add_verify_opts(opt_list, adds) ==
    IF adds = <<>> THEN <<>>
    ELSE (IF Head(adds) \in DOMAIN opt_list
          THEN <<"--" \o Head(adds) \o "=" \o OptStr(opt_list, Head(adds))>>
          ELSE <<>>)
         \o add_verify_opts(opt_list, Tail(adds))

fio_args_base_NoStonewall(fio_opts) ==
    <<"--filename=verify", "--ioengine=" \o fio_opts["ioengine"]>>

fio_args_base(fio_opts) ==
    <<"--filename=verify", "--stonewall", "--ioengine=" \o fio_opts["ioengine"]>>

extra_options(fio_opts) == add_verify_opts(fio_opts, VERIFY_OPT_LIST)

verify_only(fio_opts) ==
    <<"--verify_only", "--rw=" \o fio_opts["rw"], "--verify=" \o fio_opts["verify"]>>
    \o fio_args_base(fio_opts) \o extra_options(fio_opts)

verify_read(fio_opts) ==
    <<IF Contains("rand", fio_opts["rw"]) THEN "--rw=randread" ELSE "--rw=read",
      "--verify=" \o fio_opts["verify"]>>
    \o fio_args_base(fio_opts) \o extra_options(fio_opts)

layout(fio_opts) ==
    <<"--name=layout", "--rw=" \o fio_opts["rw"], "--verify=" \o fio_opts["verify"]>>
    \o fio_args_base(fio_opts) \o extra_options(fio_opts)

success_only(fio_opts) == <<"--name=success_only">> \o verify_only(fio_opts)

success_read(fio_opts) == <<"--name=success_read">> \o verify_read(fio_opts)

mangle_SeededFiveIos(fio_opts) ==
    <<"--name=mangle", "--rw=randwrite", "--bs=" \o OptStr(fio_opts, "mangle_bs"),
      "--number_ios=5">>
    \o fio_args_base(fio_opts) \o add_verify_opts(fio_opts, <<"filesize">>)

mangle(fio_opts) ==
    <<"--name=mangle", "--rw=randwrite", "--randrepeat=0",
      "--bs=" \o OptStr(fio_opts, "mangle_bs"), "--number_ios=1">>
    \o fio_args_base(fio_opts) \o add_verify_opts(fio_opts, <<"filesize">>)

failure_only(fio_opts) == <<"--name=failure_only">> \o verify_only(fio_opts)

failure_read(fio_opts) == <<"--name=failure_read">> \o verify_read(fio_opts)

\* VerifyFailureTest.setup: fio_args (output is self.filenames['output'])
fio_args(fio_opts, output) ==
    layout(fio_opts) \o success_only(fio_opts) \o success_read(fio_opts)
    \o mangle(fio_opts) \o failure_only(fio_opts) \o failure_read(fio_opts)
    \o <<"--output=" \o output>>

(***************************************************************************)
(* One fio invocation with the argument vector of a fault-injection case.  *)
(* fio makes one job of each --name and the options that follow it, starts *)
(* the jobs in the order given, and holds a job that has the stonewall     *)
(* option back until every job before it has exited.                       *)
(***************************************************************************)

\* the options of the invocation as a whole
GlobalOpt(a) == StartsWith(a, "--output=")

\* the jobs of an argument vector, each the sequence of its own arguments
SplitJobs(argv) ==
    LET idx      == {i \in 1..Len(argv) : StartsWith(argv[i], "--name=")}
        n        == Cardinality(idx)
        start(k) == CHOOSE i \in idx : Cardinality({j \in idx : j < i}) = k - 1
        end(k)   == IF k = n THEN Len(argv) ELSE start(k + 1) - 1
        own(a)   == ~GlobalOpt(a)
    IN  [k \in 1..n |-> SelectSeq(SubSeq(argv, start(k), end(k)), own)]

\* the values a job gives an option
OptValues(job, opt) ==
    LET prefix == "--" \o opt \o "="
    IN  { SubSeq(job[i], Len(prefix) + 1, Len(job[i])) :
            i \in { j \in 1..Len(job) : StartsWith(job[j], prefix) } }

JobName(job) == SubSeq(job[1], Len("--name=") + 1, Len(job[1]))

Stonewalled(job) == \E i \in 1..Len(job) : job[i] = "--stonewall"

\* the checksums the invocation is followed with
PhaseCsums == {"md5", "pattern", "null"}

PhasesInit ==
    /\ platform \in Platforms
    /\ MainIdle
    /\ JudgeIdle
    /\ pool = NoPool
    /\ ObjectsIdle
    /\ \E mbs \in {mangle_bs[i] : i \in 1..Len(mangle_bs)}, csum \in PhaseCsums,
          k \in 1..Len(TEST_LIST_DDIR_FIXED_0) :
          \E argv \in { fio_args(
                          verify_test_csum(
                              [i \in 1..Len(TEST_LIST_DDIR_FIXED_0) |->
                                  AdjustEngine(TEST_LIST_DDIR_FIXED_0[i], platform)],
                              mbs, csum)[k].fio_opts,
                          Join(platform, Pad4(TEST_LIST_DDIR_FIXED_0[k].test_id),
                               "fio.output")) } :
              \E jobs \in {SplitJobs(argv)} :
                  phases = [args   |-> argv,
                            jobs   |-> jobs,
                            status |-> [j \in 1..Len(jobs) |-> "pending"]]

\* fio starts the next job of the list
StartJob(k) ==
    /\ phases.status[k] = "pending"
    /\ \A j \in 1..(k - 1) : phases.status[j] # "pending"
    /\ Stonewalled(phases.jobs[k]) =>
          \A j \in 1..(k - 1) : phases.status[j] = "done"
    /\ phases' = [phases EXCEPT !.status[k] = "running"]
    /\ UNCHANGED <<platform, cpucount, active, pool, ovars, jvars, mvars>>

\* a running job exits
FinishJob(k) ==
    /\ phases.status[k] = "running"
    /\ phases' = [phases EXCEPT !.status[k] = "done"]
    /\ UNCHANGED <<platform, cpucount, active, pool, ovars, jvars, mvars>>

PhasesNext ==
    \/ \E k \in 1..Len(phases.status) : StartJob(k)
    \/ \E k \in 1..Len(phases.status) : FinishJob(k)

SpecPhases == PhasesInit /\ [][PhasesNext]_vars

\* the job of the invocation with the given name
PhaseJob(name) ==
    LET jobs == phases.jobs
    IN  jobs[CHOOSE k \in 1..Len(jobs) : JobName(jobs[k]) = name]

\* C24: the phases of a case are the jobs of one fio invocation, in the
\* order layout, success_only, success_read, mangle, failure_only,
\* failure_read; each has the stonewall option, so that while a job runs
\* every job before it has exited and no job after it has started.
C24_PhasesInOrderStonewalled ==
    LET jobs == phases.jobs
    IN  /\ [k \in 1..Len(jobs) |-> JobName(jobs[k])]
              = <<"layout", "success_only", "success_read", "mangle", "failure_only",
                  "failure_read">>
        /\ \A k \in 1..Len(jobs) : Stonewalled(jobs[k])
        /\ Cardinality({i \in 1..Len(phases.args) : GlobalOpt(phases.args[i])}) = 1
        /\ \A k \in 1..Len(jobs) :
              phases.status[k] = "running" =>
                  /\ \A j \in 1..(k - 1) : phases.status[j] = "done"
                  /\ \A j \in (k + 1)..Len(jobs) : phases.status[j] = "pending"

\* the mangle job is running: layout and both success jobs have exited
C24_Witness ==
    /\ Len(phases.status) = 6
    /\ phases.status[4] = "running"
    /\ phases.status[3] = "done"
    /\ phases.status[5] = "pending"

\* C23: the mangle job of every fault-injection invocation writes exactly
\* one I/O (number_ios=1) of random data that is not seeded repeatably
\* (randwrite, randrepeat=0) to the file the layout job wrote and the
\* failure jobs verify (the same filename, no directory of its own), at an
\* offset inside that file (the same filesize as the layout job's).
C23_MangleIsOneRandomOverwrite ==
    LET m == PhaseJob("mangle")
        l == PhaseJob("layout")
    IN  /\ OptValues(m, "number_ios") = {"1"}
        /\ OptValues(m, "rw") = {"randwrite"}
        /\ OptValues(m, "randrepeat") = {"0"}
        /\ OptValues(m, "filename") = {"verify"}
        /\ \A n \in {"layout", "failure_only", "failure_read"} :
              /\ OptValues(PhaseJob(n), "filename") = OptValues(m, "filename")
              /\ OptValues(PhaseJob(n), "directory") = OptValues(m, "directory")
        /\ Cardinality(OptValues(l, "filesize")) = 1
        /\ OptValues(m, "filesize") = OptValues(l, "filesize")
        /\ OptValues(m, "offset") = {}

\* the mangle job of test 1003 has exited and the failure jobs follow
C23_Witness ==
    /\ Len(phases.status) = 6
    /\ phases.status[4] = "done"
    /\ phases.status[5] = "running"
    /\ OptValues(PhaseJob("mangle"), "bs") = {"4"}
    /\ OptValues(PhaseJob("layout"), "rw") = {"randwrite"}
    /\ OptValues(PhaseJob("layout"), "iodepth") = {"16"}

\* C22: the size of the mangle write depends on the mangle mode alone: in
\* whole-block mode it is the bs of the case (the bs its layout job writes
\* with), in partial mode it is 4 bytes, whatever mode the iterations
\* before used.
C22_MangleSizeByModeAlone ==
    InMangleCombo =>
        \A k \in 1..Len(TEST_LIST_DDIR_FIXED) :
            LET o  == TEST_LIST_DDIR_FIXED[k].fio_opts
                bs == OptValues(mangle(o), "bs")
            IN  IF MangleCombos[combo][1] = MANGLE_JOB_BS
                THEN /\ bs = OptValues(layout(o), "bs")
                     /\ bs = {ToString(TEST_LIST_DDIR_FIXED_0[k].fio_opts["bs"])}
                ELSE bs = {"4"}

\* a partial-mode case has been run in a run whose earlier combinations were
\* whole-block ones
C22_Witness ==
    /\ InMangleCombo
    /\ MangleCombos[combo][1] = 4
    /\ \E j \in 1..Len(ran) : ran[j].matrix = "mangle" /\ ran[j].mbs = MANGLE_JOB_BS
    /\ last.matrix = "mangle"
    /\ last.mbs = 4
    /\ last.outcome = "passed"
    /\ OptValues(mangle(TEST_LIST_DDIR_FIXED[tnum - 1].fio_opts), "bs") = {"4"}

\* the verdict the result check gives a decoded report under a checksum
Verdict(csum, jobs, os) ==
    IF check_result(jobs, csum, os,
                    ExitOk(IF csum = "null" THEN "SUCCESS_DEFAULT" ELSE "SUCCESS_NONZERO",
                           ReportExitCode(jobs)))
    THEN "passed" ELSE "failed"

\* C26: the verdict of a fault-injection case whose report was decoded is a
\* function of the case's checksum, the host platform and the report: it
\* is the same for every artifact root, test, mangle mode and history of
\* earlier iterations.
C26_VerdictIsFunctionOfReport ==
    (last.matrix = "mangle" /\ last.report = "decoded") =>
        last.outcome = Verdict(last.csum, last.jobs, platform)

\* a 'pattern' case run after the 'null' combinations was judged on a
\* report whose failure phases found the corruption
C26_Witness ==
    /\ last.matrix = "mangle"
    /\ last.report = "decoded"
    /\ last.csum = "pattern"
    /\ \E j \in 1..Len(ran) : ran[j].matrix = "mangle" /\ ran[j].csum = "null"
    /\ Len(last.jobs) = 6
    /\ last.jobs[5].error = EILSEQ(platform)
    /\ last.outcome = "passed"
    /\ args.artifact_root # ""

\* the directory of a combination of the first and of the second matrix
DdirComboDir(k) ==
    Join(platform, artifact_root(args),
         "ddir_" \o DdirCombos[k][1] \o "_csum_" \o DdirCombos[k][2])

MangleComboDir(k) ==
    Join(platform, artifact_root(args),
         "mbs_" \o ToString(MangleCombos[k][1]) \o "_csum_" \o MangleCombos[k][2])

\* C25: for every checksum list the command line accepts, different
\* iterations get different directories, so the directory an iteration is
\* about to make never exists already.
C25_CombinationDirectoryIsNew ==
    /\ (pc = "ddir" /\ tnum = 0 /\ combo \in DOMAIN DdirCombos) =>
          DdirComboDir(combo) \notin dirs
    /\ (pc = "mangle" /\ tnum = 0 /\ combo \in DOMAIN MangleCombos) =>
          MangleComboDir(combo) \notin dirs

(***************************************************************************)
(* t/poolcheck.py: the audit of a smalloc debug log.  The log is the list  *)
(* of lines readlines() returns, each with its newline; the script's       *)
(* variables smalloc (pointer -> caller), trigger and count are fields of  *)
(* pool, and out is what the audit loop has printed: a record per flagged  *)
(* line and per display, with the number of the line that caused it.       *)
(***************************************************************************)

\* s[4:]
Drop4(s) == SubSeq(s, 5, Len(s))

\* callregex.search(word), callregex = "\(.+\)": the text from the first
\* opening to the last closing parenthesis, with at least one character
\* between them; "" stands for no match
callregex_search(word) ==
    LET open  == {i \in 1..Len(word) : SubSeq(word, i, i) = "("}
        close == {i \in 1..Len(word) : SubSeq(word, i, i) = ")"}
    IN  IF open = {} \/ close = {} THEN ""
        ELSE LET i == CHOOSE x \in open : \A y \in open : x <= y
                 j == CHOOSE x \in close : \A y \in close : x >= y
             IN  IF j >= i + 2 THEN SubSeq(word, i, j) ELSE ""

\* line 67: the line reports a smalloc
IsSmallocLine(line) == Contains("smalloc", line) /\ Contains("ptr", line)

\* line 76: the line reports an sfree
IsSfreeLine(line) == Contains("sfree", line)

SmallocPtrNoStrip(words) == Drop4(words[4])

\* line 68: ptr = words[3].strip(',')[4:]
SmallocPtr(words) == Drop4(StripChars(words[4], {","}))

SfreePtrNoStrip(words) == Drop4(words[3])

\* line 77: ptr = words[2][4:].strip(',')
SfreePtr(words) == StripChars(Drop4(words[3]), {","})

\* line 72: caller = callregex.search(words[4]).group(0).strip('()')
Caller(words) == StripChars(callregex_search(words[5]), {"(", ")"})

\* display: the count and, for every caller, the number of tracked buffers
display(smalloc, count, n) ==
    [kind |-> "display", ptr |-> "", line |-> n, count |-> count,
     callers |-> [c \in {smalloc[q] : q \in DOMAIN smalloc} |->
                     Cardinality({q \in DOMAIN smalloc : smalloc[q] = c})]]

\* a line of the audit's output that flags a log line
Flag(kind, ptr, n) ==
    [kind |-> kind, ptr |-> ptr, line |-> n, count |-> 0, callers |-> <<>>]

(***************************************************************************)
(* The logs the audit is followed on: lines in the format of the module    *)
(* header, for two pointers and two callers, and a line of other output.   *)
(***************************************************************************)

MaxLogLen == 4

Ptrs == {"0x7f10", "0x7f20"}

SmallocLine(ptr, caller) ==
    "smalloc: size=8, pool=0, ptr=" \o ptr \o ", caller=" \o caller
        \o " [0x55], free_blocks=9\n"

SfreeLine(ptr) == "sfree: pool=0, ptr=" \o ptr \o ", pool->free_blocks=9\n"

\* what fio logged, and the line it logged it with
LogEvents ==
    { [op |-> "smalloc", ptr |-> "0x7f10", text |-> SmallocLine("0x7f10", "./fio(+0x19)")],
      [op |-> "smalloc", ptr |-> "0x7f20", text |-> SmallocLine("0x7f20", "./fio(+0x2a)")],
      [op |-> "sfree", ptr |-> "0x7f10", text |-> SfreeLine("0x7f10")],
      [op |-> "sfree", ptr |-> "0x7f20", text |-> SfreeLine("0x7f20")],
      [op |-> "other", ptr |-> "", text |-> "fio: terminating on signal 2\n"] }

LogTexts == {e.text : e \in LogEvents}

PoolInit ==
    /\ platform = "linux"
    /\ MainIdle
    /\ JudgeIdle
    /\ phases = NoPhases
    /\ ObjectsIdle
    /\ \E n \in 0..MaxLogLen : \E flines \in [1..n -> LogTexts] :
          pool = [NoPool EXCEPT !.flines = flines, !.pos = 1, !.pc = "audit"]

\* one iteration of the loop over the log, lines 65-86
ProcessLine ==
    /\ pool.pc = "audit"
    /\ pool.pos <= Len(pool.flines)
    /\ LET line == pool.flines[pool.pos] IN
       \E words \in {Split(StripChars(line, Whitespace))} :
          LET n == pool.pos
              audited ==
                  IF IsSmallocLine(line)
                  THEN IF Len(words) < 4 THEN [pool EXCEPT !.pc = "crashed"]
                       ELSE LET ptr == SmallocPtr(words)
                            IN  IF ptr \in DOMAIN pool.smalloc
                                THEN [pool EXCEPT
                                        !.out = Append(@, Flag("already allocated", ptr, n)),
                                        !.count = @ + 1]
                                ELSE IF Len(words) < 5 \/ callregex_search(words[5]) = ""
                                THEN [pool EXCEPT !.pc = "crashed"]
                                ELSE [pool EXCEPT
                                        !.smalloc = DictSet(@, ptr, Caller(words)),
                                        !.count = @ + 1]
                  ELSE IF IsSfreeLine(line)
                  THEN IF Len(words) < 3 THEN [pool EXCEPT !.pc = "crashed"]
                       ELSE LET ptr == SfreePtr(words)
                            IN  IF ptr \notin DOMAIN pool.smalloc
                                THEN [pool EXCEPT
                                        !.out = Append(@, Flag("not found", ptr, n)),
                                        !.count = @ - 1]
                                ELSE [pool EXCEPT
                                        !.smalloc = DictPop(@, ptr),
                                        !.count = @ - 1]
                  ELSE pool
          IN  \E a \in {audited} :
                pool' = IF a.pc = "crashed" THEN a
                        ELSE IF a.count % 3 = 0 /\ a.count \notin a.trigger
                        THEN [a EXCEPT !.trigger = @ \cup {a.count},
                                       !.out = Append(@, display(a.smalloc, a.count, n)),
                                       !.pos = n + 1]
                        ELSE [a EXCEPT !.pos = n + 1]
    /\ UNCHANGED <<platform, cpucount, active, phases, ovars, jvars, mvars>>

\* the orders a loop over a dictionary may visit a set of keys in
Orders(S) ==
    {o \in [1..Cardinality(S) -> S] : \A i, j \in 1..Cardinality(S) : i # j => o[i] # o[j]}

\* lines 88-96: every tracked pointer is printed, followed by the lines of
\* the log that contain it
ListLeaks ==
    /\ pool.pc = "audit"
    /\ pool.pos > Len(pool.flines)
    /\ \E order \in Orders(DOMAIN pool.smalloc) :
          pool' = [pool EXCEPT
                     !.pc = "done",
                     !.leaked =
                        [k \in 1..Len(order) |->
                            [ptr   |-> order[k],
                             lines |->
                                LET hits == SelectSeq(pool.flines,
                                                      LAMBDA l : Contains(order[k], l))
                                IN  [i \in 1..Len(hits) |->
                                        StripChars(hits[i], Whitespace)]]]]
    /\ UNCHANGED <<platform, cpucount, active, phases, ovars, jvars, mvars>>

PoolNext == ProcessLine \/ ListLeaks

SpecPool == PoolInit /\ [][PoolNext]_vars

\* what fio did when it logged line n of the log
Ev(n) == CHOOSE e \in LogEvents : e.text = pool.flines[n]

\* after the first n lines, ptr has been allocated and not freed since
CurrentlyAllocated(ptr, n) ==
    \E i \in 1..n :
        /\ Ev(i).op = "smalloc" /\ Ev(i).ptr = ptr
        /\ \A j \in (i + 1)..n : ~(Ev(j).op = "sfree" /\ Ev(j).ptr = ptr)

\* the flags the audit printed for line n
Flags(n) ==
    {pool.out[k] : k \in {i \in 1..Len(pool.out) :
                            pool.out[i].line = n /\ pool.out[i].kind # "display"}}

\* the most recent line about ptr among the first n that was not flagged
\* is a smalloc
LastUnflaggedIsSmalloc(ptr, n) ==
    \E i \in 1..n :
        /\ Ev(i).op = "smalloc" /\ Ev(i).ptr = ptr /\ Flags(i) = {}
        /\ \A j \in (i + 1)..n : Ev(j).ptr = ptr => Flags(j) # {}

\* C27: on a log of smalloc and sfree lines the audit never stops early; it
\* flags a smalloc exactly when the pointer is allocated at that point
\* (allocated and not freed since) and an sfree exactly when it is not, and
\* nothing else; after every line the keys of the smalloc dictionary are the
\* pointers whose most recent unflagged line is a smalloc, which are the
\* pointers allocated at that point.
C27_FlagsExactlyTheInconsistentLines ==
    /\ pool.pc # "crashed"
    /\ pool.pc \in {"audit", "done"} =>
          /\ \A n \in 1..(pool.pos - 1) :
                LET e == Ev(n)
                IN  Flags(n) =
                       IF e.op = "smalloc" /\ CurrentlyAllocated(e.ptr, n - 1)
                       THEN {Flag("already allocated", e.ptr, n)}
                       ELSE IF e.op = "sfree" /\ ~CurrentlyAllocated(e.ptr, n - 1)
                       THEN {Flag("not found", e.ptr, n)}
                       ELSE {}
          /\ DOMAIN pool.smalloc
                = {q \in Ptrs : LastUnflaggedIsSmalloc(q, pool.pos - 1)}
          /\ DOMAIN pool.smalloc = {q \in Ptrs : CurrentlyAllocated(q, pool.pos - 1)}

\* a log has been audited in which a live pointer was allocated again, an
\* unknown pointer was freed and a third line passed unflagged
C27_Witness ==
    /\ pool.pc = "audit"
    /\ pool.pos = Len(pool.flines) + 1
    /\ \E i, j, k \in 1..Len(pool.flines) :
          /\ Flags(i) = {Flag("already allocated", "0x7f10", i)}
          /\ Flags(j) = {Flag("not found", "0x7f20", j)}
          /\ Ev(k).op = "smalloc" /\ Flags(k) = {}
    /\ DOMAIN pool.smalloc = {"0x7f10"}

\* C28: at the end of the log the pointers listed are exactly those that
\* were allocated by a smalloc and not freed by a later sfree, and each is
\* listed once.
C28_LeakedAreTheUnfreed ==
    pool.pc = "done" =>
        /\ {pool.leaked[k].ptr : k \in 1..Len(pool.leaked)}
              = {q \in Ptrs : CurrentlyAllocated(q, Len(pool.flines))}
        /\ \A i, j \in 1..Len(pool.leaked) :
              i # j => pool.leaked[i].ptr # pool.leaked[j].ptr

\* the listing of a log that allocates one pointer twice and never frees
\* it, and allocates and frees the other
C28_Witness ==
    /\ pool.pc = "done"
    /\ Len(pool.flines) = 4
    /\ Len(pool.leaked) = 1
    /\ pool.leaked[1].ptr = "0x7f10"
    /\ Len(pool.leaked[1].lines) = 2
    /\ \E i, j \in 1..Len(pool.flines) :
          /\ i < j
          /\ Ev(i).op = "smalloc" /\ Ev(i).ptr = "0x7f20"
          /\ Ev(j).op = "sfree" /\ Ev(j).ptr = "0x7f20"

\* the number of cases the runner has processed so far: every test of the
\* combinations that were completed and the tests before tnum of the one
\* under way
CasesProcessed ==
    LET full(j) == IF ran[j].matrix = "ddir" THEN Len(TEST_LIST)
                   ELSE Len(TEST_LIST_DDIR_FIXED)
        RECURSIVE Sum(_)
        Sum(j)  == IF j = 0 THEN 0 ELSE full(j) + Sum(j - 1)
    IN  IF tnum = 0 THEN Sum(Len(ran))
        ELSE Sum(Len(ran) - 1) + (tnum - 1)

\* C30: every processed case adds one to exactly one tally, so whenever the
\* totals are reported passed + failed + skipped is the number of cases
\* processed so far.
C30_TalliesCountEveryCase ==
    pc \in {"report", "exited"} =>
        total.passed + total.failed + total.skipped = CasesProcessed

\* the number of buffers a display lists: the sum of its per-caller numbers
Listed(d) ==
    LET RECURSIVE Sum(_)
        Sum(S) == IF S = {} THEN 0
                  ELSE LET c == CHOOSE x \in S : TRUE IN d.callers[c] + Sum(S \ {c})
    IN  Sum(DOMAIN d.callers)

\* C40: after every processed line the count is the number of pointers the
\* smalloc dictionary tracks, and every display prints a count equal to the
\* number of buffers it lists.
C40_CountIsNumberTracked ==
    pool.pc \in {"audit", "done"} =>
        /\ pool.count = Cardinality(DOMAIN pool.smalloc)
        /\ \A k \in 1..Len(pool.out) :
              pool.out[k].kind = "display" => pool.out[k].count = Listed(pool.out[k])

\* C36: a report is judged passed only if it has as many job entries as
\* there are expected phases and every expected phase name occurs in it
\* exactly once.
C36_EachPhaseExactlyOnce ==
    (Judged /\ passed) =>
        /\ Len(json_data) = Len(SetupJobNames)
        /\ \A n \in 1..Len(SetupJobNames) :
              Cardinality({k \in 1..Len(json_data) :
                              json_data[k].jobname = SetupJobNames[n]}) = 1

\* C37: the result check only lowers the verdict: its one step never turns
\* a failed case into a passed one, so a case the base check has failed is
\* failed after it whatever the report holds.
C37_VerdictOnlyLowered ==
    /\ Judged => (~base_passed => ~passed)
    /\ (jpc = "super_done") => (passed = base_passed)

\* a case the base check failed has been judged on a report in which every
\* phase is as expected, and is still failed
C37_Witness ==
    /\ Judged
    /\ ~base_passed
    /\ ~passed
    /\ fio_verify = "md5"
    /\ JobNames(json_data) = SetupJobNames
    /\ SetupPhasesClean(json_data)
    /\ \A k \in 1..Len(json_data) :
          IsFailureJob(json_data[k].jobname) => json_data[k].error = EILSEQ(platform)

\* VerifyTest.setup: the argument vector of a direction-sensitive case
VerifyTest_setup(fio_opts, output) ==
    <<"--name=verify",
      "--ioengine=" \o fio_opts["ioengine"],
      "--rw=" \o fio_opts["rw"],
      "--verify=" \o fio_opts["verify"],
      "--output=" \o output>>
    \o add_verify_opts(fio_opts, VERIFY_OPT_LIST)

\* the option names the literals of VERIFY_OPT_LIST spell
VerifyOptsMeant ==
    {"direct", "iodepth", "filesize", "bs", "time_based", "runtime", "io_size", "offset",
     "number_ios", "output-format", "directory", "norandommap", "numjobs", "nrfiles",
     "openfiles", "cpus_allowed", "verify_backlog", "verify_backlog_batch",
     "verify_interval", "verify_offset", "verify_async", "verify_async_cpus",
     "verify_pattern"}

\* argv gives option o the value the dictionary holds
Forwarded(argv, fio_opts, o) ==
    \E i \in 1..Len(argv) : argv[i] = "--" \o o \o "=" \o OptStr(fio_opts, o)

\* C38: every option of the list that a case sets, cpus_allowed and
\* verify_backlog among them, is in the argument vector as --option=value,
\* for the direction-sensitive and for the fault-injection cases.
C38_ListedOptionsForwarded ==
    /\ InDdirCombo =>
          \A k \in 1..Len(TEST_LIST) :
              \A o \in VerifyOptsMeant \cap DOMAIN TEST_LIST[k].fio_opts :
                  Forwarded(VerifyTest_setup(TEST_LIST[k].fio_opts, "fio.output"),
                            TEST_LIST[k].fio_opts, o)
    /\ InMangleCombo =>
          \A k \in 1..Len(TEST_LIST_DDIR_FIXED) :
              \A o \in VerifyOptsMeant \cap DOMAIN TEST_LIST_DDIR_FIXED[k].fio_opts :
                  Forwarded(layout(TEST_LIST_DDIR_FIXED[k].fio_opts),
                            TEST_LIST_DDIR_FIXED[k].fio_opts, o)

(***************************************************************************)
(* The run step of copy_test.py and fio's exit code (SpecCopy).            *)
(***************************************************************************)

\* the return code a test's option table asks for, read from the table
ExpectedReturnCode(id) ==
    LET opts == CopyTestOf(id).opts
    IN  IF "returncode" \in DOMAIN opts THEN opts["returncode"] ELSE 0

\* C33: a case is counted passed only if fio exited by itself with the
\* return code the test expects: the 'returncode' option of the test, 0 when
\* the test has none.  A test that expects 1 fails when fio exits 0, and a
\* test that expects success fails on an exit code other than 0.
C33_RunSucceedsOnlyOnExpectedExitCode ==
    (CopyCaseDone /\ last.outcome = "passed") =>
        /\ last.event = "exit"
        /\ last.rc = ExpectedReturnCode(last.test_id)

\* a test that expects return code 1 has failed on fio exiting 0, after a
\* test that expects 0 was counted
C33_Witness ==
    /\ CopyCaseDone
    /\ ExpectedReturnCode(last.test_id) = 1
    /\ last.event = "exit"
    /\ last.rc = 0
    /\ last.outcome = "failed"
    /\ total.passed >= 1

(***************************************************************************)
(* The steps of one case of copy_test.py (SpecCopy).                       *)
(***************************************************************************)

StepOrder == <<"precon", "run_fio", "check">>

\* the steps of a case were taken in the order precon, run_fio, check, each
\* one after a step that returned a true status
StepsChained(c) ==
    /\ Len(c.steps) \in 1..3
    /\ \A i \in 1..Len(c.steps) : c.steps[i].step = StepOrder[i]
    /\ \A i \in 2..Len(c.steps) : c.steps[i - 1].status = "True"

\* C34: every case that is not skipped takes its steps in the order
\* precondition, fio run, result check; a step is taken only if the one
\* before it succeeded; the case is counted passed only if all three
\* succeeded; and the result check is made only after a run in which fio
\* exited by itself with the expected return code.
C34_StepsInOrderEachAfterSuccess ==
    [][ (last' # last /\ last'.matrix = "copy" /\ last'.outcome # "skipped") =>
            /\ StepsChained(last')
            /\ last'.outcome = "passed" =>
                  /\ Len(last'.steps) = 3
                  /\ \A i \in 1..3 : last'.steps[i].status = "True"
            /\ (Len(last'.steps) = 3) =>
                  /\ last'.event = "exit"
                  /\ last'.rc = ExpectedReturnCode(last'.test_id)
      ]_vars

\* a case whose run failed on the exit code stopped after two steps, after a
\* case that took all three steps and passed
C34_Witness ==
    /\ CopyCaseDone
    /\ last.event = "exit"
    /\ last.rc # ExpectedReturnCode(last.test_id)
    /\ Len(last.steps) = 2
    /\ last.steps[2] = [step |-> "run_fio", status |-> "False"]
    /\ last.outcome = "failed"
    /\ total.passed >= 1

(***************************************************************************)
(* copy_test.py, TestBssplit.check_iolog: the walk over the lines of       *)
(* iolog.log.  bssplit holds the lines of the file, the position of the    *)
(* loop, the method's local names and what check() makes of its result.    *)
(***************************************************************************)

IologInit ==
    /\ platform = "linux"
    /\ MainIdle
    /\ JudgeIdle
    /\ phases = NoPhases
    /\ pool = NoPool
    /\ getjson = NoObject
    /\ gmulti = NoObject
    /\ csmain = NoObject
    /\ \E k \in BssplitTests, n \in 0..MaxIologLen, others \in BOOLEAN :
          \E lines \in [1..n -> IologTexts] :
             bssplit = [test |-> k, lines |-> lines, pos |-> 1, retval |-> TRUE,
                        retvak |-> "unbound", others |-> others, result |-> "none",
                        checked |-> "none", pc |-> "loop"]

\* one iteration of the loop over the lines of the iolog
CheckIologLine ==
    /\ bssplit.pc = "loop"
    /\ bssplit.pos <= Len(bssplit.lines)
    /\ bssplit' = check_iolog_line(bssplit, bssplit.lines[bssplit.pos])
    /\ UNCHANGED <<platform, cpucount, active, phases, pool, getjson, gmulti, csmain,
                   jvars, mvars>>

\* 'return retval' after the loop or the break, and what check() keeps of
\* it: retval &= self.check_iolog(), where others is the conjunction of the
\* verdicts of check()'s other tests
CheckIologReturn ==
    /\ \/ bssplit.pc = "loop" /\ bssplit.pos > Len(bssplit.lines)
       \/ bssplit.pc = "return"
    /\ bssplit' = [bssplit EXCEPT !.result = IF bssplit.retval THEN "True" ELSE "False",
                                  !.checked = IF bssplit.others /\ bssplit.retval
                                              THEN "True" ELSE "False",
                                  !.pc = "returned"]
    /\ UNCHANGED <<platform, cpucount, active, phases, pool, getjson, gmulti, csmain,
                   jvars, mvars>>

IologNext == CheckIologLine \/ CheckIologReturn

SpecIolog == IologInit /\ [][IologNext]_vars

\* the entry a line of the iolog is
IologEntry(text) == CHOOSE e \in IologEntries : e.text = text

\* the iolog has a copy entry whose size is not one of the allowed sizes
HasDisallowedCopy(b) ==
    \E n \in 1..Len(b.lines) :
       /\ IologEntry(b.lines[n]).action = "copy"
       /\ IologEntry(b.lines[n]).size \notin test_allowed_bs(test_list[b.test])

\* C31: check_iolog returns False, and check() with it, whenever the iolog
\* has a copy entry whose transfer size is not in the test's list of allowed
\* sizes; it returns True only when the size of every copy entry is in the
\* list.
C31_DisallowedCopySizeFailsCheck ==
    bssplit.pc = "returned" =>
        /\ HasDisallowedCopy(bssplit) =>
              (bssplit.result = "False" /\ bssplit.checked = "False")
        /\ bssplit.result = "True" => ~HasDisallowedCopy(bssplit)

(***************************************************************************)
(* copy_test.py, FioCopyTest.get_json: fio's output file is read, split    *)
(* into lines, and decoded with up to four leading lines lopped off.       *)
(* getjson holds the text read from the file, its lines, the loop index    *)
(* and self.json_data.                                                     *)
(***************************************************************************)

\* the most lines fio prints ahead of its report in the model
MaxPreamble == 5

JobsMember == "  \"jobs\" : []"

\* lines fio prints that are not part of a JSON document
NoteLines == {"fio: terminating on signal 2", ""}

Twice(h) == h \o h

\* s * n
RECURSIVE Repeat(_, _)
Repeat(s, n) ==
    IF n = 0 THEN "" ELSE Twice(Repeat(s, n \div 2)) \o (IF n % 2 = 1 THEN s ELSE "")

\* the deepest nesting of arrays and objects json.loads decodes inside
\* get_json when main has called it through run_fio: sys.getrecursionlimit()
\* is 1000, and the module, main, run_fio, get_json, json.loads, decode and
\* raw_decode are on the stack
MaxNesting == 992

\* a number of one digit more than int() converts
LongNumeral == Repeat("1", int_max_str_digits + 1)

\* what follows the preamble: a report, a report with a blank line or a note
\* after it, other JSON values on one line or several, documents cut short,
\* nothing, a report with a number of 4301 digits, a string that holds the
\* character U+0085, the words NaN and Infinity, and nested arrays
OutputBodies ==
    { <<"{", JobsMember, "}">>,
      <<"{", "}">>,
      <<"{", "", "}">>,
      <<"{\"jobs\" : []}">>,
      <<"[]">>,
      <<"null">>,
      <<"{", JobsMember, "}", "">>,
      <<"{", JobsMember, "}", "fio: terminating on signal 2">>,
      <<"3">>,
      <<"{", JobsMember>>,
      <<JobsMember, "}">>,
      <<"{", "{", "}">>,
      <<>>,
      <<"{", JobsMember \o ",", "  \"bw\" : " \o LongNumeral, "}">>,
      <<"{\"jobname\" : \"copy\"}">>,
      <<"{\"bw\" : NaN}">>,
      <<"[Infinity]">>,
      <<"[[1.5, {\"a\" : [true, \"b\"]}], -0]">> }

\* '\n'.join(lines[i:]), kept as the sequence of the lines joined
LinesFrom(lines, i) == SubSeq(lines, i + 1, Len(lines))

\* the characters at which str.splitlines() ends a line, among those a
\* string of the model can hold: \n, \r, \v, \f, U+001C, U+001D, U+001E and
\* U+0085; \r\n ends one line
LineBreaks == {"\n", "\r", "", "\f", "", "", "", ""}

\* the position of the first line break of text, 0 when it has none
FirstBreak(text) ==
    LET at == {k \in 1..Len(text) : SubSeq(text, k, k) \in LineBreaks}
    IN  IF at = {} THEN 0 ELSE CHOOSE k \in at : \A j \in at : k <= j

\* the position after the line break at k
AfterBreak(text, k) ==
    IF SubSeq(text, k, k) = "\r" /\ k < Len(text) /\ SubSeq(text, k + 1, k + 1) = "\n"
    THEN k + 2 ELSE k + 1

RECURSIVE splitlines(_)

splitlines_at(text, k) ==
    IF k = 0 THEN <<text>>
    ELSE <<SubSeq(text, 1, k - 1)>>
         \o splitlines(SubSeq(text, AfterBreak(text, k), Len(text)))

\* text.splitlines(): the lines of text without their line breaks; no empty
\* line after a final line break
splitlines(text) == IF text = "" THEN <<>> ELSE splitlines_at(text, FirstBreak(text))

RECURSIVE RemoveLines(_, _)

RemoveLines_at(text, i, k) ==
    IF k = 0 THEN "" ELSE RemoveLines(SubSeq(text, AfterBreak(text, k), Len(text)), i - 1)

\* text without its first i lines
RemoveLines(text, i) ==
    IF i = 0 \/ text = "" THEN text ELSE RemoveLines_at(text, i, FirstBreak(text))

\* the characters U+0020 to U+005F, U+0061 to U+007E and U+007F to U+00FF,
\* in order; a string of the model cannot hold U+0060
Visible == " !\"#$%&'()*+,-./0123456789:;<=>?@ABCDEFGHIJKLMNOPQRSTUVWXYZ[\\]^_"

VisibleFrom97 == "abcdefghijklmnopqrstuvwxyz{|}~"

Latin1From127 == " ¡¢£¤¥¦§¨©ª«¬­®¯°±²³´µ¶·¸¹º»¼½¾¿ÀÁÂÃÄÅÆÇÈÉÊËÌÍÎÏÐÑÒÓÔÕÖ×ØÙÚÛÜÝÞßàáâãäåæçèéêëìíîïðñòóôõö÷øùúûüýþÿ"

\* ord(c) for the characters from U+0020 on; the control characters below
\* it, which no JSON string may hold, are all given 0
CodePoint(c) ==
    LET text == Visible \o " " \o VisibleFrom97 \o Latin1From127
        at   == {k \in 1..Len(text) : SubSeq(text, k, k) = c}
    IN  IF at = {} THEN 0 ELSE 31 + (CHOOSE k \in at : \A j \in at : k <= j)

\* chr(n) for U+0020 to U+007E but U+0060
Chr(n) ==
    IF n < 96 THEN SubSeq(Visible, n - 31, n - 31)
    ELSE SubSeq(VisibleFrom97, n - 96, n - 96)

HexDigits == "0123456789abcdef"

\* the value of a hexadecimal digit of either case, -1 for another character
HexValue(c) ==
    LET at == {k \in 1..16 : SubSeq(HexDigits, k, k) = Lower(c)}
    IN  IF Len(c) # 1 \/ at = {} THEN -1 ELSE (CHOOSE k \in at : TRUE) - 1

\* n in hexadecimal, at least width digits
RECURSIVE Hex(_, _)
Hex(n, width) ==
    IF n = 0 /\ width <= 0 THEN ""
    ELSE Hex(n \div 16, width - 1) \o SubSeq(HexDigits, (n % 16) + 1, (n % 16) + 1)

\* the result of a decoding step that raises the exception of that name
Raised(name) == [ok |-> FALSE, pos |-> 0, val |-> name]

\* the result of a decoding step that raises JSONDecodeError
NoValue == Raised("JSONDecodeError")

\* the character of t at position i, "" past the end
CharAt(t, i) == IF i >= 1 /\ i <= Len(t) THEN SubSeq(t, i, i) ELSE ""

\* the first position from i on that holds none of chars, Len(t) + 1 when
\* there is none
SkipChars(t, i, chars) ==
    LET at == {k \in i..Len(t) : SubSeq(t, k, k) \notin chars}
    IN  IF at = {} THEN (IF i > Len(t) THEN i ELSE Len(t) + 1)
        ELSE CHOOSE k \in at : \A j \in at : k <= j

\* the code points 34, 92, 47, 8, 12, 10, 13, 9 of the characters that
\* \", \\, \/, \b, \f, \n, \r and \t stand for
Escapes ==
    ("\"" :> 34) @@ ("\\" :> 92) @@ ("/" :> 47) @@ ("b" :> 8) @@ ("f" :> 12)
    @@ ("n" :> 10) @@ ("r" :> 13) @@ ("t" :> 9)

RECURSIVE scanstring(_, _, _)

\* scanstring at the character c of position i, which e follows
scanstring_at(t, i, cps, c, e) ==
    LET hex(k) == HexValue(CharAt(t, i + 1 + k))
    IN  IF c = "" THEN NoValue
        ELSE IF c = "\"" THEN [ok |-> TRUE, pos |-> i + 1, val |-> cps]
        ELSE IF c = "\\"
             THEN IF e = "u"
                  THEN IF \E k \in 1..4 : hex(k) = -1 THEN NoValue
                       ELSE scanstring(t, i + 6,
                               Append(cps, 4096 * hex(1) + 256 * hex(2) + 16 * hex(3) + hex(4)))
                  ELSE IF e \in DOMAIN Escapes
                  THEN scanstring(t, i + 2, Append(cps, Escapes[e]))
                  ELSE NoValue
        ELSE IF CodePoint(c) = 0 THEN NoValue
        ELSE scanstring(t, i + 1, Append(cps, CodePoint(c)))

\* json.decoder.scanstring (strict): the code points of the string whose
\* opening quote is before position i. A control character, a backslash
\* before anything but " \ / b f n r t u, a \u without four hexadecimal
\* digits and a missing closing quote are errors
scanstring(t, i, cps) == scanstring_at(t, i, cps, CharAt(t, i), CharAt(t, i + 1))

\* a \uD800-\uDBFF escape right before a \uDC00-\uDFFF escape is one
\* character
RECURSIVE JoinSurrogates(_)
JoinSurrogates(cps) ==
    IF Len(cps) < 2 THEN cps
    ELSE IF /\ cps[1] >= 55296 /\ cps[1] <= 56319
            /\ cps[2] >= 56320 /\ cps[2] <= 57343
         THEN <<65536 + (cps[1] - 55296) * 1024 + (cps[2] - 56320)>>
              \o JoinSurrogates(SubSeq(cps, 3, Len(cps)))
    ELSE <<cps[1]>> \o JoinSurrogates(Tail(cps))

\* the characters of a string as ascii() prints them between the quotes:
\* backslash and the quote escaped, \n, \r and \t by name, every other
\* character outside U+0020 to U+007E, and U+0060, by its code
RECURSIVE str_escape(_, _)
str_escape(cps, quote) ==
    IF Len(cps) = 0 THEN ""
    ELSE (CASE cps[1] = 92 -> "\\\\"
            [] cps[1] = quote -> "\\" \o Chr(quote)
            [] cps[1] = 10 -> "\\n"
            [] cps[1] = 13 -> "\\r"
            [] cps[1] = 9 -> "\\t"
            [] cps[1] \notin {92, quote, 96} /\ cps[1] >= 32 /\ cps[1] <= 126 -> Chr(cps[1])
            [] cps[1] \notin {9, 10, 13}
               /\ (cps[1] < 32 \/ cps[1] = 96 \/ (cps[1] >= 127 /\ cps[1] <= 255)) ->
                  "\\x" \o Hex(cps[1], 2)
            [] cps[1] >= 256 /\ cps[1] <= 65535 -> "\\u" \o Hex(cps[1], 4)
            [] OTHER -> "\\U" \o Hex(cps[1], 8))
         \o str_escape(Tail(cps), quote)

str_quoted(cps, quote) == Chr(quote) \o str_escape(cps, quote) \o Chr(quote)

\* ascii() of a string: in single quotes, in double quotes when it holds a
\* single quote and no double quote
str_repr(cps) ==
    LET has(c) == \E k \in 1..Len(cps) : cps[k] = c
    IN  str_quoted(cps, IF has(39) /\ ~has(34) THEN 34 ELSE 39)

\* n zeros
RECURSIVE Zeros(_)
Zeros(n) == IF n <= 0 THEN "" ELSE "0" \o Zeros(n - 1)

\* a < b for two texts of decimal digits of the same length
RECURSIVE DigitsLess(_, _)
DigitsLess(a, b) ==
    IF a = "" THEN FALSE
    ELSE IF SubSeq(a, 1, 1) # SubSeq(b, 1, 1)
         THEN DecimalValue(SubSeq(a, 1, 1), 0) < DecimalValue(SubSeq(b, 1, 1), 0)
    ELSE DigitsLess(SubSeq(a, 2, Len(a)), SubSeq(b, 2, Len(b)))

\* repr of the float 0.digits * 10^decpt, where digits are its significant
\* digits, nd of them: up to fifteen, and the sixteen of a whole number up
\* to 2^53, are what repr prints, by position when -4 < decpt <= 16 and with
\* an exponent of at least two digits otherwise. A value past the largest
\* float is inf, one below half the smallest is 0.0. A numeral of more
\* digits, or of a value below the normal range, stands for its float as
\* float('text')
float_digits(text, sign, digits, nd, decpt) ==
    LET mag   == IF decpt - 1 < 0 THEN 1 - decpt ELSE decpt - 1
        etext == (IF decpt - 1 < 0 THEN "-" ELSE "+") \o (IF mag < 10 THEN "0" ELSE "")
                 \o ToString(mag)
    IN  IF \/ decpt >= 310
           \/ (decpt = 309 /\ nd <= 15
               /\ DigitsLess("179769313486231", digits \o Zeros(15 - nd)))
        THEN sign \o "inf"
        ELSE IF decpt <= -324 THEN sign \o "0.0"
        ELSE IF \/ nd > 16 \/ decpt < -306 \/ decpt > 309
                \/ (nd = 16 /\ ~(decpt = 16 /\ DigitsLess(digits, "9007199254740993")))
             THEN "float('" \o text \o "')"
        ELSE IF decpt > 16 \/ decpt < -3
             THEN sign \o SubSeq(digits, 1, 1)
                  \o (IF nd > 1 THEN "." \o SubSeq(digits, 2, nd) ELSE "")
                  \o "e" \o etext
        ELSE IF decpt <= 0 THEN sign \o "0." \o Zeros(0 - decpt) \o digits
        ELSE IF decpt >= nd THEN sign \o digits \o Zeros(decpt - nd) \o ".0"
        ELSE sign \o SubSeq(digits, 1, decpt) \o "." \o SubSeq(digits, decpt + 1, nd)

\* the float of the digits all, the first nip of them before the point,
\* times 10^exp: its first digit that is not 0 is at position first
float_first(text, sign, all, nip, exp, first) ==
    LET sig   == {k \in 1..Len(all) : SubSeq(all, k, k) # "0"}
        final == CHOOSE k \in sig : \A j \in sig : k >= j
    IN  IF sig = {} THEN sign \o "0.0"
        ELSE float_digits(text, sign, SubSeq(all, first, final), final - first + 1,
                          nip - (first - 1) + exp)

\* the exponent of digits ed from position efirst on, negative when eneg;
\* past five digits it is as good as 100000
exponent(eneg, ed, efirst) ==
    IF Len(ed) - efirst + 1 > 5 THEN (IF eneg THEN -100000 ELSE 100000)
    ELSE IF eneg THEN 0 - DecimalValue(SubSeq(ed, efirst, Len(ed)), 0)
    ELSE DecimalValue(SubSeq(ed, efirst, Len(ed)), 0)

\* repr(float(text)) for the numeral text with integer digits ip, fraction
\* digits fp and exponent digits ed
float_repr(text, neg, ip, fp, eneg, ed) ==
    float_first(text, IF neg THEN "-" ELSE "", ip \o fp, Len(ip),
                exponent(eneg, ed, SkipChars(ed, 1, {"0"})),
                SkipChars(ip \o fp, 1, {"0"}))

\* the end of (0|[1-9][0-9]*) at s; s when there is no match
IntEnd(t, s) ==
    IF CharAt(t, s) = "0" THEN s + 1
    ELSE IF CharAt(t, s) \in Digits THEN SkipChars(t, s, Digits)
    ELSE s

\* the end of (.[0-9]+)? at intEnd
FracEnd(t, intEnd) ==
    IF CharAt(t, intEnd) = "." /\ CharAt(t, intEnd + 1) \in Digits
    THEN SkipChars(t, intEnd + 1, Digits) ELSE intEnd

\* where the digits of an exponent at fracEnd start
ExpStart(t, fracEnd) ==
    IF CharAt(t, fracEnd + 1) \in {"+", "-"} THEN fracEnd + 2 ELSE fracEnd + 1

\* the end of ([eE][-+]?[0-9]+)? at fracEnd, its digits from es on
ExpEnd(t, fracEnd, es) ==
    IF CharAt(t, fracEnd) \in {"e", "E"} /\ CharAt(t, es) \in Digits
    THEN SkipChars(t, es, Digits) ELSE fracEnd

\* the number from position i to expEnd - 1: an int without fraction and
\* exponent, a float with either. int() refuses more than
\* int_max_str_digits digits with a ValueError; float() has no such limit
number_value(t, i, s, intEnd, fracEnd, es, expEnd) ==
    IF expEnd = intEnd
    THEN IF intEnd - s > int_max_str_digits THEN Raised("ValueError")
         ELSE [ok |-> TRUE, pos |-> intEnd,
               val |-> IF SubSeq(t, i, intEnd - 1) = "-0" THEN "0"
                       ELSE SubSeq(t, i, intEnd - 1)]
    ELSE [ok |-> TRUE, pos |-> expEnd,
          val |-> float_repr(SubSeq(t, i, expEnd - 1), s > i, SubSeq(t, s, intEnd - 1),
                             IF fracEnd > intEnd THEN SubSeq(t, intEnd + 1, fracEnd - 1)
                             ELSE "",
                             expEnd > fracEnd /\ CharAt(t, fracEnd + 1) = "-",
                             IF expEnd > fracEnd THEN SubSeq(t, es, expEnd - 1) ELSE "")]

match_exp(t, i, s, intEnd, fracEnd, es) ==
    number_value(t, i, s, intEnd, fracEnd, es, ExpEnd(t, fracEnd, es))

match_frac(t, i, s, intEnd, fracEnd) ==
    match_exp(t, i, s, intEnd, fracEnd, ExpStart(t, fracEnd))

match_int(t, i, s, intEnd) ==
    IF intEnd = s THEN NoValue ELSE match_frac(t, i, s, intEnd, FracEnd(t, intEnd))

match_sign(t, i, s) == match_int(t, i, s, IntEnd(t, s))

\* the scanner's number: -?(0|[1-9][0-9]*)(.[0-9]+)?([eE][-+]?[0-9]+)? at
\* position i, as long a match as there is
match_number(t, i) == match_sign(t, i, IF CharAt(t, i) = "-" THEN i + 1 ELSE i)

RECURSIVE scan_once(_, _, _)
RECURSIVE parse_object(_, _, _, _, _)
RECURSIVE parse_array(_, _, _, _)

\* the members of a dict as ascii() prints them
RECURSIVE DictItems(_, _)
DictItems(keys, vals) ==
    IF Len(keys) = 0 THEN ""
    ELSE keys[1] \o ": " \o vals[1]
         \o (IF Len(keys) > 1 THEN ", " ELSE "") \o DictItems(Tail(keys), Tail(vals))

\* after a member's value: the closing brace, or a comma and the next member
object_next(t, keys, vals, after, depth) ==
    IF CharAt(t, after) = "}"
    THEN [ok |-> TRUE, pos |-> after + 1, val |-> "{" \o DictItems(keys, vals) \o "}"]
    ELSE IF CharAt(t, after) = ","
    THEN parse_object(t, SkipChars(t, after + 1, JsonWhitespace), keys, vals, depth)
    ELSE NoValue

\* a name seen before keeps its place and takes the new value; an exception
\* raised inside the value leaves the object with it
object_value(t, keys, vals, key, value, depth) ==
    LET seen == {k \in 1..Len(keys) : keys[k] = key}
    IN  IF ~value.ok THEN value
        ELSE object_next(t, IF seen = {} THEN Append(keys, key) ELSE keys,
                         IF seen = {} THEN Append(vals, value.val)
                         ELSE [vals EXCEPT ![CHOOSE k \in seen : TRUE] = value.val],
                         SkipChars(t, value.pos, JsonWhitespace), depth)

object_colon(t, keys, vals, key, colon, depth) ==
    IF CharAt(t, colon) # ":" THEN NoValue
    ELSE object_value(t, keys, vals, key,
                      scan_once(t, SkipChars(t, colon + 1, JsonWhitespace), depth), depth)

object_name(t, keys, vals, name, depth) ==
    IF ~name.ok THEN name
    ELSE object_colon(t, keys, vals, str_repr(JoinSurrogates(name.val)),
                      SkipChars(t, name.pos, JsonWhitespace), depth)

\* the members of an object inside depth arrays and objects, from position
\* i on, where a member's name is due: a string, a colon, a value, then a
\* comma and the next member or the closing brace
parse_object(t, i, keys, vals, depth) ==
    IF CharAt(t, i) # "\"" THEN NoValue
    ELSE object_name(t, keys, vals, scanstring(t, i + 1, <<>>), depth)

\* after an element: the closing bracket, or a comma and the next element
array_next(t, vals, after, depth) ==
    IF CharAt(t, after) = "]"
    THEN [ok |-> TRUE, pos |-> after + 1, val |-> "[" \o JoinComps(vals, ", ") \o "]"]
    ELSE IF CharAt(t, after) = ","
    THEN parse_array(t, SkipChars(t, after + 1, JsonWhitespace), vals, depth)
    ELSE NoValue

array_value(t, vals, value, depth) ==
    IF ~value.ok THEN value
    ELSE array_next(t, Append(vals, value.val), SkipChars(t, value.pos, JsonWhitespace),
                    depth)

\* the elements of an array inside depth arrays and objects, from position
\* i on, where a value is due
parse_array(t, i, vals, depth) == array_value(t, vals, scan_once(t, i, depth), depth)

scan_string(string) ==
    IF string.ok THEN [string EXCEPT !.val = str_repr(JoinSurrogates(string.val))]
    ELSE string

scan_object(t, inside, depth) ==
    IF CharAt(t, inside) = "}" THEN [ok |-> TRUE, pos |-> inside + 1, val |-> "{}"]
    ELSE parse_object(t, inside, <<>>, <<>>, depth)

scan_array(t, inside, depth) ==
    IF CharAt(t, inside) = "]" THEN [ok |-> TRUE, pos |-> inside + 1, val |-> "[]"]
    ELSE parse_array(t, inside, <<>>, depth)

\* a number, or else NaN, Infinity or -Infinity
scan_number(t, i, number) ==
    LET word(w)  == Len(t) >= i + Len(w) - 1 /\ SubSeq(t, i, i + Len(w) - 1) = w
        is(w, v) == [ok |-> TRUE, pos |-> i + Len(w), val |-> v]
    IN  IF number.ok \/ number.val # "JSONDecodeError" THEN number
        ELSE IF word("NaN") THEN is("NaN", "nan")
        ELSE IF word("Infinity") THEN is("Infinity", "inf")
        ELSE IF word("-Infinity") THEN is("-Infinity", "-inf")
        ELSE NoValue

\* an object or an array is decoded inside Py_EnterRecursiveCall: one more
\* level than MaxNesting is a RecursionError
scan_at(t, i, c, depth) ==
    LET word(w)  == Len(t) >= i + Len(w) - 1 /\ SubSeq(t, i, i + Len(w) - 1) = w
        is(w, v) == [ok |-> TRUE, pos |-> i + Len(w), val |-> v]
    IN  IF c = "\"" THEN scan_string(scanstring(t, i + 1, <<>>))
        ELSE IF c \in {"{", "["} /\ depth >= MaxNesting THEN Raised("RecursionError")
        ELSE IF c = "{" THEN scan_object(t, SkipChars(t, i + 1, JsonWhitespace), depth + 1)
        ELSE IF c = "[" THEN scan_array(t, SkipChars(t, i + 1, JsonWhitespace), depth + 1)
        ELSE IF word("null") THEN is("null", "None")
        ELSE IF word("true") THEN is("true", "True")
        ELSE IF word("false") THEN is("false", "False")
        ELSE scan_number(t, i, match_number(t, i))

\* the scanner's scan_once: the value that starts at position i inside depth
\* arrays and objects, written as ascii() prints it, and the position after
\* it
scan_once(t, i, depth) == scan_at(t, i, CharAt(t, i), depth)

\* JSONDecoder.decode after raw_decode: only white space may follow the
\* value
decode_end(text, value) ==
    IF ~value.ok THEN value.val
    ELSE IF SkipChars(text, value.pos, JsonWhitespace) # Len(text) + 1
    THEN "JSONDecodeError"
    ELSE value.val

decode(text) == decode_end(text, scan_once(text, SkipChars(text, 1, JsonWhitespace), 0))

\* json.loads of the joined lines: white space, one value, white space and
\* the end of the text. The value is written as ascii() prints it; a text
\* that is no JSON document is "JSONDecodeError", an int of too many digits
\* "ValueError", nesting too deep "RecursionError"
json_loads(ls) == decode(JoinComps(ls, "\n"))

\* RFC 8259: the position after the JSON value that starts at position i,
\* 0 when none starts there
RECURSIVE value_end(_, _)
RECURSIVE members_end(_, _)
RECURSIVE elements_end(_, _)

string_end(string) == IF string.ok THEN string.pos ELSE 0

exp_end(t, fracEnd) == ExpEnd(t, fracEnd, ExpStart(t, fracEnd))

int_end(t, s, intEnd) == IF intEnd = s THEN 0 ELSE exp_end(t, FracEnd(t, intEnd))

number_end(t, s) == int_end(t, s, IntEnd(t, s))

member_sep(t, after) ==
    IF CharAt(t, after) = "}" THEN after + 1
    ELSE IF CharAt(t, after) = "," THEN members_end(t, SkipChars(t, after + 1, JsonWhitespace))
    ELSE 0

member_next(t, e) == IF e = 0 THEN 0 ELSE member_sep(t, SkipChars(t, e, JsonWhitespace))

member_value(t, colon) ==
    IF CharAt(t, colon) # ":" THEN 0
    ELSE member_next(t, value_end(t, SkipChars(t, colon + 1, JsonWhitespace)))

member_colon(t, e) == IF e = 0 THEN 0 ELSE member_value(t, SkipChars(t, e, JsonWhitespace))

\* member *( , member ) }
members_end(t, i) ==
    IF CharAt(t, i) # "\"" THEN 0
    ELSE member_colon(t, string_end(scanstring(t, i + 1, <<>>)))

element_sep(t, after) ==
    IF CharAt(t, after) = "]" THEN after + 1
    ELSE IF CharAt(t, after) = "," THEN elements_end(t, SkipChars(t, after + 1, JsonWhitespace))
    ELSE 0

element_next(t, e) == IF e = 0 THEN 0 ELSE element_sep(t, SkipChars(t, e, JsonWhitespace))

\* value *( , value ) ]
elements_end(t, i) == element_next(t, value_end(t, i))

object_end(t, inside) ==
    IF CharAt(t, inside) = "}" THEN inside + 1 ELSE members_end(t, inside)

array_end(t, inside) ==
    IF CharAt(t, inside) = "]" THEN inside + 1 ELSE elements_end(t, inside)

value_at(t, i, c) ==
    LET word(w) == Len(t) >= i + Len(w) - 1 /\ SubSeq(t, i, i + Len(w) - 1) = w
    IN  IF c = "\"" THEN string_end(scanstring(t, i + 1, <<>>))
        ELSE IF c = "{" THEN object_end(t, SkipChars(t, i + 1, JsonWhitespace))
        ELSE IF c = "[" THEN array_end(t, SkipChars(t, i + 1, JsonWhitespace))
        ELSE IF word("null") \/ word("true") THEN i + 4
        ELSE IF word("false") THEN i + 5
        ELSE number_end(t, IF c = "-" THEN i + 1 ELSE i)

value_end(t, i) == value_at(t, i, CharAt(t, i))

text_end(text, e) == e # 0 /\ SkipChars(text, e, JsonWhitespace) = Len(text) + 1

\* text is valid JSON: white space, one value of the grammar of RFC 8259,
\* white space
ValidJson(text) == text_end(text, value_end(text, SkipChars(text, 1, JsonWhitespace)))

GetJsonInit ==
    /\ platform = "linux"
    /\ MainIdle
    /\ JudgeIdle
    /\ phases = NoPhases
    /\ pool = NoPool
    /\ bssplit = NoObject
    /\ gmulti = NoObject
    /\ csmain = NoObject
    /\ \/ getjson = [file |-> "absent", data |-> "", lines |-> <<>>, i |-> 0,
                     json_data |-> "unset", result |-> "none", outcome |-> "none",
                     exception |-> "", pc |-> "open"]
       \/ \E n \in 0..MaxPreamble, body \in OutputBodies :
             \E pre \in [1..n -> NoteLines] :
                getjson = [file |-> "present", data |-> JoinComps(pre \o body, "\n"),
                           lines |-> <<>>, i |-> 0, json_data |-> "unset",
                           result |-> "none", outcome |-> "none", exception |-> "",
                           pc |-> "open"]

\* open(), read() and splitlines(): FileNotFoundError leaves get_json,
\* run_fio and main
get_json_open(g) ==
    IF g.file = "absent" THEN [g EXCEPT !.exception = "FileNotFoundError", !.pc = "raised"]
    ELSE [g EXCEPT !.lines = splitlines(g.data), !.pc = "loop"]

GetJsonOpen ==
    /\ getjson.pc = "open"
    /\ getjson' = get_json_open(getjson)
    /\ UNCHANGED <<platform, cpucount, active, phases, pool, bssplit, gmulti, csmain,
                   jvars, mvars>>

\* try, except json.JSONDecodeError: continue, else: return True; another
\* exception of json.loads leaves get_json, run_fio and main
get_json_decoded(g, decoded) ==
    IF decoded = "JSONDecodeError"
    THEN [g EXCEPT !.i = @ + 1]
    ELSE IF decoded \in {"ValueError", "RecursionError"}
    THEN [g EXCEPT !.exception = decoded, !.pc = "raised"]
    ELSE [g EXCEPT !.json_data = decoded, !.result = "True", !.pc = "returned"]

\* one iteration of 'for i in range(5)': the lines from the i-th on are
\* joined and decoded; on success json_data is set and get_json returns True
get_json_try(g) == get_json_decoded(g, json_loads(LinesFrom(g.lines, g.i)))

GetJsonTry ==
    /\ getjson.pc = "loop"
    /\ getjson.i < 5
    /\ getjson' = get_json_try(getjson)
    /\ UNCHANGED <<platform, cpucount, active, phases, pool, bssplit, gmulti, csmain,
                   jvars, mvars>>

\* 'return False' after the loop; run_fio prints 'Unable to decode JSON
\* data', sets passed = False and returns it, and main counts the case failed
GetJsonGiveUp ==
    /\ getjson.pc = "loop"
    /\ getjson.i = 5
    /\ getjson' = [getjson EXCEPT !.result = "False", !.outcome = "failed",
                                  !.pc = "returned"]
    /\ UNCHANGED <<platform, cpucount, active, phases, pool, bssplit, gmulti, csmain,
                   jvars, mvars>>

GetJsonNext == GetJsonOpen \/ GetJsonTry \/ GetJsonGiveUp

SpecGetJson == GetJsonInit /\ [][GetJsonNext]_vars

\* get_json has ended on an output file it could read
GetJsonEnded == getjson.file = "present" /\ getjson.pc \in {"returned", "raised"}

\* what get_json must have done with the output data when the numbers ok of
\* leading lines are those whose removal leaves valid JSON
GetJsonAsClaimed(g, ok) ==
    /\ g.result = "True" <=> ok # {}
    /\ ok # {} => g.json_data = decode(RemoveLines(g.data, CHOOSE i \in ok : \A j \in ok : i <= j))
    /\ ok = {} => (g.result = "False" /\ g.outcome = "failed")

\* C32: get_json, for an output file it can read, returns True exactly when
\* the output without its first i lines is valid JSON for some i from 0 to
\* 4, and json_data is then the decoding for the least such i; when there is
\* no such i it returns False and the case is counted failed.
C32_GetJsonLopsUpToFourLines ==
    GetJsonEnded =>
        GetJsonAsClaimed(getjson, {i \in 0..4 : ValidJson(RemoveLines(getjson.data, i))})

(***************************************************************************)
(* client-server.py, ClientServerTestGlobalMultiple.check_result: the job  *)
(* file of every server is compared with the 'global options' array of     *)
(* fio's report.  A dictionary is a function from its keys; Python's None  *)
(* is the string "None".                                                   *)
(***************************************************************************)

SERVER_LIST == <<",8765", ",8766", ",8767", ",8768">>

\* the tests of TEST_LIST run by ClientServerTestGlobalMultiple, after main
\* has put the entry of SERVER_LIST in place of each index
GlobalMultipleTests ==
    <<  [test_id |-> 5,
         servers |-> << [client |-> SERVER_LIST[1], jobfile |-> "test4-noglobal.fio"],
                        [client |-> SERVER_LIST[2], jobfile |-> "test1.fio"],
                        [client |-> SERVER_LIST[3], jobfile |-> "test4-noglobal.fio"],
                        [client |-> SERVER_LIST[4], jobfile |-> "test1.fio"] >>],
        [test_id |-> 6,
         servers |-> << [client |-> SERVER_LIST[1], jobfile |-> "test1.fio"],
                        [client |-> SERVER_LIST[2], jobfile |-> "test1.fio"],
                        [client |-> SERVER_LIST[3], jobfile |-> "test1.fio"],
                        [client |-> SERVER_LIST[4], jobfile |-> "test1.fio"] >>],
        [test_id |-> 7,
         servers |-> << [client |-> SERVER_LIST[1], jobfile |-> "test4-noglobal.fio"],
                        [client |-> SERVER_LIST[2], jobfile |-> "test4-noglobal.fio"],
                        [client |-> SERVER_LIST[3], jobfile |-> "test4-noglobal.fio"],
                        [client |-> SERVER_LIST[4], jobfile |-> "test4-noglobal.fio"] >>]
    >>

\* what configparser reads as the global section of a job file that has
\* one: an option without a value reads as None
GlobalSections ==
    { ("rw" :> "read" @@ "thread" :> "None"),
      ("rw" :> "write") }

\* config.read(jobfile) with allow_no_value: whether the file has a global
\* section, and the section
ConfigOf(jobfile, section) ==
    IF jobfile = "test4-noglobal.fio"
    THEN [has_global |-> FALSE, global |-> <<>>]
    ELSE [has_global |-> TRUE, global |-> section]

\* job_file_global: dict(config['global']) with None replaced by ""
job_file_global(section) ==
    [key \in DOMAIN section |-> IF section[key] = "None" THEN "" ELSE section[key]]

\* the most elements of a 'global options' array in the model
MaxGlobalOptions == 4

\* the elements a report's 'global options' array is made of
GlobalOptionsElements ==
    { ("hostname" :> "" @@ "port" :> "8766" @@ "rw" :> "read" @@ "thread" :> ""),
      ("hostname" :> "" @@ "port" :> "8768" @@ "rw" :> "read" @@ "thread" :> ""),
      ("hostname" :> "" @@ "port" :> "8765" @@ "rw" :> "read" @@ "thread" :> ""),
      ("hostname" :> "" @@ "port" :> "8766" @@ "rw" :> "write"),
      ("port" :> "8766" @@ "rw" :> "read" @@ "thread" :> "") }

\* d after 'del d[key]' for every key of the set
Without(d, keys) == [key \in DOMAIN d \ keys |-> d[key]]

\* [hostname, port] = server['client'].split(',')
ClientHostname(client) ==
    SubSeq(client, 1, (CHOOSE k \in 1..Len(client) : SubSeq(client, k, k) = ",") - 1)

ClientPort(client) ==
    SubSeq(client, (CHOOSE k \in 1..Len(client) : SubSeq(client, k, k) = ",") + 1,
           Len(client))

GMultiInit ==
    /\ platform = "linux"
    /\ MainIdle
    /\ JudgeIdle
    /\ phases = NoPhases
    /\ pool = NoPool
    /\ bssplit = NoObject
    /\ getjson = NoObject
    /\ csmain = NoObject
    /\ \E t \in 1..Len(GlobalMultipleTests), section \in GlobalSections,
          n \in 0..MaxGlobalOptions, base \in BOOLEAN :
          \E opts \in [1..n -> GlobalOptionsElements] :
             gmulti = [servers |-> GlobalMultipleTests[t].servers, section |-> section,
                       reported |-> opts, global_options |-> opts, k |-> 1,
                       global_sections |-> 0, passed |-> base, pc |-> "loop"]

\* the index of the first element of the array that has a hostname and a
\* port and whose hostname and port are the server's; 0 when there is none;
\* -1 when int() raises ValueError on the port of an element with the
\* server's hostname that the loop reaches before a match
FirstMatch(global_options, hostname, port) ==
    LET named  == { j \in 1..Len(global_options) :
                      /\ "hostname" \in DOMAIN global_options[j]
                      /\ "port" \in DOMAIN global_options[j]
                      /\ global_options[j]["hostname"] = hostname }
        raises == { j \in named : ~IsInt(global_options[j]["port"]) \/ ~IsInt(port) }
        hits   == { j \in named \ raises :
                      int(global_options[j]["port"]) = int(port) }
        first  == CHOOSE j \in hits \cup raises : \A i \in hits \cup raises : j <= i
    IN  IF hits \cup raises = {} THEN 0
        ELSE IF first \in raises THEN -1 ELSE first

\* the variant of check_server that does not compare the options
check_server_AnyOptions(g, server) ==
    LET config == ConfigOf(server.jobfile, g.section)
        j      == FirstMatch(g.global_options, ClientHostname(server.client),
                             ClientPort(server.client))
    IN  IF ~config.has_global THEN [g EXCEPT !.k = @ + 1]
        ELSE IF j = -1 THEN [g EXCEPT !.global_sections = @ + 1, !.pc = "raised"]
        ELSE IF j = 0
             THEN [g EXCEPT !.global_sections = @ + 1, !.passed = FALSE, !.k = @ + 1]
             ELSE [g EXCEPT !.global_sections = @ + 1, !.k = @ + 1,
                            !.global_options[j] = Without(@, {"hostname", "port"})]

\* one iteration of 'for server in self.fio_opts['servers']'
check_server(g, server) ==
    LET config == ConfigOf(server.jobfile, g.section)
        j      == FirstMatch(g.global_options, ClientHostname(server.client),
                             ClientPort(server.client))
    IN  IF ~config.has_global THEN [g EXCEPT !.k = @ + 1]
        ELSE IF j = -1 THEN [g EXCEPT !.global_sections = @ + 1, !.pc = "raised"]
        ELSE IF j = 0
             THEN [g EXCEPT !.global_sections = @ + 1, !.passed = FALSE, !.k = @ + 1]
             ELSE LET match == Without(g.global_options[j], {"hostname", "port"})
                  IN  [g EXCEPT !.global_sections = @ + 1, !.k = @ + 1,
                                !.global_options[j] = match,
                                !.passed = IF job_file_global(config.global) # match
                                           THEN FALSE ELSE @]

GMultiServer ==
    /\ gmulti.pc = "loop"
    /\ gmulti.k <= Len(gmulti.servers)
    /\ gmulti' = check_server(gmulti, gmulti.servers[gmulti.k])
    /\ UNCHANGED <<platform, cpucount, active, phases, pool, bssplit, getjson, csmain,
                   jvars, mvars>>

\* after the loop: the number of elements against the number of job files
\* with a global section
GMultiCount ==
    /\ gmulti.pc = "loop"
    /\ gmulti.k > Len(gmulti.servers)
    /\ gmulti' = [gmulti EXCEPT
                     !.passed = IF gmulti.global_sections # Len(gmulti.global_options)
                                THEN FALSE ELSE @,
                     !.pc = "done"]
    /\ UNCHANGED <<platform, cpucount, active, phases, pool, bssplit, getjson, csmain,
                   jvars, mvars>>

GMultiNext == GMultiServer \/ GMultiCount

SpecGMulti == GMultiInit /\ [][GMultiNext]_vars

\* the host and port each entry of SERVER_LIST names
ServerAddress ==
    (",8765" :> [hostname |-> "", port |-> 8765]) @@
    (",8766" :> [hostname |-> "", port |-> 8766]) @@
    (",8767" :> [hostname |-> "", port |-> 8767]) @@
    (",8768" :> [hostname |-> "", port |-> 8768])

\* the servers of the case whose job file has a global section
WithGlobal(g) == { k \in 1..Len(g.servers) : g.servers[k].jobfile # "test4-noglobal.fio" }

\* the report has an element for the server: its hostname and port, and the
\* options of the job file's global section besides
HasElementFor(g, k) ==
    \E j \in 1..Len(g.reported) :
       LET e == g.reported[j]
       IN  /\ {"hostname", "port"} \subseteq DOMAIN e
           /\ e["hostname"] = ServerAddress[g.servers[k].client].hostname
           /\ e["port"] = ToString(ServerAddress[g.servers[k].client].port)
           /\ DOMAIN e \ {"hostname", "port"} = DOMAIN g.section
           /\ \A key \in DOMAIN g.section :
                 e[key] = (IF g.section[key] = "None" THEN "" ELSE g.section[key])

\* C35: check_result leaves the case passed only if every job file with a
\* global section has an element of 'global options' with its server's
\* hostname and port whose other options equal that section, and the array
\* has as many elements as there are job files with a global section.
C35_PassedOnlyIfGlobalOptionsMatch ==
    (gmulti.pc = "done" /\ gmulti.passed) =>
        /\ \A k \in WithGlobal(gmulti) : HasElementFor(gmulti, k)
        /\ Len(gmulti.reported) = Cardinality(WithGlobal(gmulti))

\* test 5 has passed: two of its four job files have a global section and
\* the report has the two elements
C35_Witness ==
    /\ gmulti.pc = "done"
    /\ gmulti.passed
    /\ Cardinality(WithGlobal(gmulti)) = 2
    /\ Len(gmulti.reported) = 2
    /\ gmulti.global_sections = 2

(***************************************************************************)
(* client-server.py, main: the servers of SERVER_LIST are started, the     *)
(* tests are run, the servers are stopped.  csmain holds main's position,  *)
(* PIDFILE_LIST (each pid file named by its server), what start_servers    *)
(* and stop_servers returned, and as history the servers a stop signal was *)
(* sent to.                                                                *)
(***************************************************************************)

\* the test ids of TEST_LIST
ClientServerTestIds == <<1, 2, 3, 4, 5, 6, 7>>

\* the return codes of 'sudo fio --server=... --daemonize=...' and of
\* 'sudo kill <pid>'
CommandReturnCodes == {0, 1}

CSInit ==
    /\ platform = "linux"
    /\ MainIdle
    /\ JudgeIdle
    /\ phases = NoPhases
    /\ pool = NoPool
    /\ bssplit = NoObject
    /\ getjson = NoObject
    /\ gmulti = NoObject
    /\ csmain = [pc |-> "start_servers", k |-> 1, PIDFILE_LIST |-> <<>>,
                 started |-> "none", tnum |-> 0, failed |-> 0, stopped |-> "none",
                 signalled |-> {}, tests_run |-> FALSE, exitcode |-> -1]

\* main after 'start_servers(fio_path)': the value returned is dropped,
\* 'Servers started' is printed and the tests are set up
main_after_start(c, ret) ==
    [c EXCEPT !.started = ret, !.pc = "tests", !.tnum = 1]

\* one iteration of start_servers' loop: the server is started and its pid
\* file appended to PIDFILE_LIST, or the command fails and start_servers
\* returns False
StartServer ==
    /\ csmain.pc = "start_servers"
    /\ csmain.k <= Len(SERVER_LIST)
    /\ \E returncode \in CommandReturnCodes :
          csmain' = IF returncode # 0
                    THEN main_after_start(csmain, "False")
                    ELSE [csmain EXCEPT !.PIDFILE_LIST = Append(@, SERVER_LIST[csmain.k]),
                                        !.k = @ + 1]
    /\ UNCHANGED <<platform, cpucount, active, phases, pool, bssplit, getjson, gmulti,
                   jvars, mvars>>

\* start_servers' 'return True' after the loop
ServersStarted ==
    /\ csmain.pc = "start_servers"
    /\ csmain.k > Len(SERVER_LIST)
    /\ csmain' = main_after_start(csmain, "True")
    /\ UNCHANGED <<platform, cpucount, active, phases, pool, bssplit, getjson, gmulti,
                   jvars, mvars>>

\* run_fio_tests: one test of TEST_LIST is run and passes or fails
CSRunTest ==
    /\ csmain.pc = "tests"
    /\ csmain.tnum <= Len(ClientServerTestIds)
    /\ \E ok \in BOOLEAN :
          csmain' = [csmain EXCEPT !.tnum = @ + 1, !.tests_run = TRUE,
                                   !.failed = IF ok THEN @ ELSE @ + 1]
    /\ UNCHANGED <<platform, cpucount, active, phases, pool, bssplit, getjson, gmulti,
                   jvars, mvars>>

\* run_fio_tests returns; main calls stop_servers()
CSTestsDone ==
    /\ csmain.pc = "tests"
    /\ csmain.tnum > Len(ClientServerTestIds)
    /\ csmain' = [csmain EXCEPT !.pc = "stop_servers", !.k = 1]
    /\ UNCHANGED <<platform, cpucount, active, phases, pool, bssplit, getjson, gmulti,
                   jvars, mvars>>

\* one iteration of stop_servers' loop: the pid is read and 'sudo kill pid'
\* run; when the command fails stop_servers returns False
stop_server(c, returncode) ==
    IF returncode # 0
    THEN [c EXCEPT !.stopped = "False", !.pc = "exit"]
    ELSE [c EXCEPT !.signalled = @ \cup {c.PIDFILE_LIST[c.k]}, !.k = @ + 1]

StopServer ==
    /\ csmain.pc = "stop_servers"
    /\ csmain.k <= Len(csmain.PIDFILE_LIST)
    /\ \E returncode \in CommandReturnCodes :
          csmain' = stop_server(csmain, returncode)
    /\ UNCHANGED <<platform, cpucount, active, phases, pool, bssplit, getjson, gmulti,
                   jvars, mvars>>

\* stop_servers' 'return True' after the loop
ServersStopped ==
    /\ csmain.pc = "stop_servers"
    /\ csmain.k > Len(csmain.PIDFILE_LIST)
    /\ csmain' = [csmain EXCEPT !.stopped = "True", !.pc = "exit"]
    /\ UNCHANGED <<platform, cpucount, active, phases, pool, bssplit, getjson, gmulti,
                   jvars, mvars>>

\* sys.exit(failed)
CSExit ==
    /\ csmain.pc = "exit"
    /\ csmain' = [csmain EXCEPT !.exitcode = ExitStatus(platform, csmain.failed),
                                !.pc = "exited"]
    /\ UNCHANGED <<platform, cpucount, active, phases, pool, bssplit, getjson, gmulti,
                   jvars, mvars>>

CSNext ==
    \/ StartServer
    \/ ServersStarted
    \/ CSRunTest
    \/ CSTestsDone
    \/ StopServer
    \/ ServersStopped
    \/ CSExit

SpecCS == CSInit /\ [][CSNext]_vars

\* the servers that were started
StartedServers == { csmain.PIDFILE_LIST[k] : k \in 1..Len(csmain.PIDFILE_LIST) }

\* C39: a test is run only after every server of SERVER_LIST was started,
\* and when the process exits a stop signal has been sent to every server
\* that was started, whether or not starting a later server, stopping an
\* earlier one, or a test failed.
C39_TestsAfterAllStartedAndAllStopped ==
    /\ csmain.pc # "idle" =>
          /\ csmain.tests_run =>
                StartedServers = { SERVER_LIST[k] : k \in 1..Len(SERVER_LIST) }
          /\ csmain.pc = "exited" => StartedServers \subseteq csmain.signalled

====
